---- MODULE Spec2Model ----
(***************************************************************************)
(* A model of the FastTrack tools server: the Output Formatter             *)
(* (src/src/utils/outputFormatter.ts) and the extraction tool handlers     *)
(* that build the ExtractionResult it renders.                             *)
(*                                                                         *)
(* JavaScript values are records [k |-> kind, v |-> payload]; the kind is  *)
(* compared first, so two values of different kinds are simply unequal.    *)
(* A JavaScript string is a sequence of one-character strings, so that     *)
(* toLowerCase, includes, length and the CSV escaping act on characters.   *)
(* An object is the sequence of its <<key, value>> entries in the order    *)
(* Object.keys enumerates them.                                            *)
(***************************************************************************)
EXTENDS Integers, Sequences, FiniteSets, TLC

VARIABLES pc, env, tokenCache, call, extracted, nextLink, pageCount, result,
          mappedFields, output, store, sessions

vars ==
  <<pc, env, tokenCache, call, extracted, nextLink, pageCount, result,
    mappedFields, output, store, sessions>>

(***************************************************************************)
(* Values                                                                  *)
(***************************************************************************)
Num(n) == [k |-> "number", v |-> n]
Str(s) == [k |-> "string", v |-> s]
Bool(b) == [k |-> "boolean", v |-> b]
Null == [k |-> "null", v |-> 0]
Undefined == [k |-> "undefined", v |-> 0]
Arr(items) == [k |-> "array", v |-> items]
Obj(entries) == [k |-> "object", v |-> entries]

\* typeof v === "object" (true of null, arrays and objects)
TypeofObject(val) == val.k \in {"null", "array", "object"}

\* Object.keys / Object.values of an object
ObjectKeys(obj) == [i \in 1..Len(obj.v) |-> obj.v[i][1]]
ObjectValues(obj) == [i \in 1..Len(obj.v) |-> obj.v[i][2]]

\* obj[key]: the value of the entry named key, undefined when there is none
Get(obj, key) ==
  IF \E i \in 1..Len(obj.v) : obj.v[i][1] = key
    THEN obj.v[CHOOSE i \in 1..Len(obj.v) : obj.v[i][1] = key][2]
    ELSE Undefined

\* An optional parameter: <<>> when omitted, <<x>> when supplied.
None == <<>>
Some(x) == <<x>>
\* A supplied name (format, tool) is truthy unless it is the empty string.
Truthy(opt) == opt # None /\ opt[1] # ""
\* The same for a string of characters, as Array.prototype.find returns a key.
TruthyKey(opt) == opt # None /\ opt[1] # <<>>

Range(s) == {s[i] : i \in 1..Len(s)}
Max(a, b) == IF a >= b THEN a ELSE b

RECURSIVE MaxOf(_, _)
MaxOf(ns, i) == IF i > Len(ns) THEN 0 ELSE Max(ns[i], MaxOf(ns, i + 1))

(***************************************************************************)
(* Strings                                                                 *)
(***************************************************************************)
UpperCase == <<"A", "B", "C", "D", "E", "F", "G", "H", "I", "J", "K", "L", "M",
               "N", "O", "P", "Q", "R", "S", "T", "U", "V", "W", "X", "Y", "Z">>
LowerCase == <<"a", "b", "c", "d", "e", "f", "g", "h", "i", "j", "k", "l", "m",
               "n", "o", "p", "q", "r", "s", "t", "u", "v", "w", "x", "y", "z">>

LowerOf ==
  [c \in Range(UpperCase) |->
     LowerCase[CHOOSE i \in 1..Len(UpperCase) : UpperCase[i] = c]]

LowerChar(c) == IF c \in DOMAIN LowerOf THEN LowerOf[c] ELSE c

\* String.prototype.toLowerCase
toLowerCase(s) == [i \in 1..Len(s) |-> LowerChar(s[i])] \o <<>>

\* String.prototype.includes
includes(s, sub) ==
  \E i \in 0..(Len(s) - Len(sub)) : SubSeq(s, i + 1, i + Len(sub)) = sub

\* Array.prototype.join on strings
RECURSIVE JoinRange(_, _, _, _)
\* the parts from the first-th to the last-th, joined
JoinRange(parts, sep, first, last) ==
  IF first > last THEN <<>>
  ELSE IF first = last THEN parts[first]
  ELSE JoinRange(parts, sep, first, (first + last) \div 2)
         \o sep \o JoinRange(parts, sep, (first + last) \div 2 + 1, last)

Join(parts, sep) == JoinRange(parts \o <<>>, sep, 1, Len(parts))

Digits == <<"0", "1", "2", "3", "4", "5", "6", "7", "8", "9">>

\* String(n) of a non-negative integer
RECURSIVE NumText(_)
NumText(n) ==
  IF n < 10 THEN <<Digits[n + 1]>>
  ELSE NumText(n \div 10) \o <<Digits[(n % 10) + 1]>>

\* String(v)
RECURSIVE JsString(_)
JsString(val) ==
  CASE val.k = "string" -> val.v
    [] val.k = "number" -> NumText(val.v)
    [] val.k = "boolean" ->
         IF val.v THEN <<"t", "r", "u", "e">> ELSE <<"f", "a", "l", "s", "e">>
    [] val.k = "null" -> <<"n", "u", "l", "l">>
    [] val.k = "undefined" -> <<"u", "n", "d", "e", "f", "i", "n", "e", "d">>
    [] val.k = "array" ->
         Join([i \in 1..Len(val.v) |->
                 IF val.v[i].k \in {"null", "undefined"} THEN <<>>
                 ELSE JsString(val.v[i])], <<",">>)
    [] val.k = "object" ->
         <<"[", "o", "b", "j", "e", "c", "t", " ",
           "O", "b", "j", "e", "c", "t", "]">>

\* The escaping JSON.stringify applies inside a string literal.
JsonEscapeChar(c) ==
  CASE c = "\"" -> <<"\\", "\"">>
    [] c = "\\" -> <<"\\", "\\">>
    [] c = "\n" -> <<"\\", "n">>
    [] OTHER -> <<c>>

JsonQuote(s) ==
  <<"\"">> \o Join([i \in 1..Len(s) |-> JsonEscapeChar(s[i])], <<>>) \o <<"\"">>

\* The entries JSON.stringify writes for an object: those whose value is not
\* undefined.
Defined(entries) == SelectSeq(entries, LAMBDA e : e[2].k # "undefined")

\* JSON.stringify(v) without indentation
RECURSIVE JsonText(_)
JsonText(val) ==
  CASE val.k = "string" -> JsonQuote(val.v)
    [] val.k \in {"number", "boolean"} -> JsString(val)
    [] val.k \in {"null", "undefined"} -> <<"n", "u", "l", "l">>
    [] val.k = "array" ->
         <<"[">> \o Join([i \in 1..Len(val.v) |-> JsonText(val.v[i])], <<",">>)
                \o <<"]">>
    [] val.k = "object" ->
         <<"{">> \o Join([i \in 1..Len(Defined(val.v)) |->
                           JsonQuote(Defined(val.v)[i][1]) \o <<":">>
                             \o JsonText(Defined(val.v)[i][2])], <<",">>)
                \o <<"}">>

\* The value a JSON.stringify text denotes: properties holding undefined are
\* left out, undefined array items become null.
RECURSIVE JsonValue(_)
JsonValue(val) ==
  CASE val.k = "array" ->
         Arr([i \in 1..Len(val.v) |->
                IF val.v[i].k = "undefined" THEN Null ELSE JsonValue(val.v[i])])
    [] val.k = "object" ->
         Obj([i \in 1..Len(Defined(val.v)) |->
                <<Defined(val.v)[i][1], JsonValue(Defined(val.v)[i][2])>>])
    [] OTHER -> val

(***************************************************************************)
(* The formatter's tables                                                  *)
(***************************************************************************)
TARGET_TOOL_FORMAT_MAP ==
  ("add_customer" :> "json") @@
  ("update_customer_status" :> "json") @@
  ("add_environment" :> "json") @@
  ("add_checklist_item" :> "json") @@
  ("update_checklist_item" :> "json") @@
  ("search_best_practices" :> "markdown") @@
  ("get_implementation_checklist" :> "markdown") @@
  ("get_customer" :> "key-value") @@
  ("list_customers" :> "csv") @@
  ("get_environments" :> "csv") @@
  ("validate_environment_readiness" :> "summary")

k_name == <<"n", "a", "m", "e">>
k_industry == <<"i", "n", "d", "u", "s", "t", "r", "y">>
k_region == <<"r", "e", "g", "i", "o", "n">>
k_engagementType ==
  <<"e", "n", "g", "a", "g", "e", "m", "e", "n", "t", "T", "y", "p", "e">>
k_d365Modules == <<"d", "3", "6", "5", "M", "o", "d", "u", "l", "e", "s">>
k_goLiveDate == <<"g", "o", "L", "i", "v", "e", "D", "a", "t", "e">>
k_assignedArchitect ==
  <<"a", "s", "s", "i", "g", "n", "e", "d",
    "A", "r", "c", "h", "i", "t", "e", "c", "t">>
k_customerId == <<"c", "u", "s", "t", "o", "m", "e", "r", "I", "d">>
k_type == <<"t", "y", "p", "e">>
k_version == <<"v", "e", "r", "s", "i", "o", "n">>
k_lcsProjectId == <<"l", "c", "s", "P", "r", "o", "j", "e", "c", "t", "I", "d">>
k_url == <<"u", "r", "l">>
k_phase == <<"p", "h", "a", "s", "e">>
k_category == <<"c", "a", "t", "e", "g", "o", "r", "y">>
k_title == <<"t", "i", "t", "l", "e">>
k_description == <<"d", "e", "s", "c", "r", "i", "p", "t", "i", "o", "n">>
k_owner == <<"o", "w", "n", "e", "r">>
k_dueDate == <<"d", "u", "e", "D", "a", "t", "e">>
k_status == <<"s", "t", "a", "t", "u", "s">>
k_notes == <<"n", "o", "t", "e", "s">>
k_itemId == <<"i", "t", "e", "m", "I", "d">>

TARGET_TOOL_FIELDS ==
  ("add_customer" :>
     <<k_name, k_industry, k_region, k_engagementType, k_d365Modules,
       k_goLiveDate, k_assignedArchitect>>) @@
  ("add_environment" :>
     <<k_customerId, k_name, k_type, k_region, k_version, k_lcsProjectId,
       k_url>>) @@
  ("add_checklist_item" :>
     <<k_customerId, k_phase, k_category, k_title, k_description, k_owner,
       k_dueDate>>) @@
  ("update_customer_status" :> <<k_customerId, k_status, k_notes>>) @@
  ("update_checklist_item" :> <<k_customerId, k_itemId, k_status, k_notes>>)

(***************************************************************************)
(* Format resolution                                                       *)
(***************************************************************************)
\* getMaxDepth(obj, depth)
RECURSIVE getMaxDepth(_, _)
getMaxDepth(obj, depth) ==
  IF obj.k # "object" THEN depth
  ELSE Max(depth,
           MaxOf([i \in 1..Len(obj.v) |-> getMaxDepth(obj.v[i][2], depth + 1)], 1))

\* records.every(r => Object.values(r).every(v => not a plain object))
allFlat(records) ==
  \A i \in 1..Len(records) :
    \A j \in 1..Len(records[i].v) :
      LET val == records[i].v[j][2]
      IN ~TypeofObject(val) \/ val.k = "null" \/ val.k = "array"

\* A variant for which 200 characters are already long.
hasLongText_from200(records) ==
  \E i \in 1..Len(records) :
    \E j \in 1..Len(records[i].v) :
      LET val == records[i].v[j][2]
      IN val.k = "string" /\ Len(val.v) >= 200

\* records.some(r => Object.values(r).some(v => string longer than 200))
hasLongText(records) ==
  \E i \in 1..Len(records) :
    \E j \in 1..Len(records[i].v) :
      LET val == records[i].v[j][2]
      IN val.k = "string" /\ Len(val.v) > 200

\* A variant that compares the depth of a single record with 3.
detectFormatFromData_depth3(records) ==
  IF Len(records) = 0 THEN "json"
  ELSE IF Len(records) = 1
    THEN (IF getMaxDepth(records[1], 0) > 3 THEN "json" ELSE "key-value")
  ELSE IF allFlat(records) /\ Len(records) > 3 THEN "csv"
  ELSE IF hasLongText(records) THEN "markdown"
  ELSE "json"

\* A variant for which three flat records are already a table.
detectFormatFromData_from3(records) ==
  IF Len(records) = 0 THEN "json"
  ELSE IF Len(records) = 1
    THEN (IF getMaxDepth(records[1], 0) > 2 THEN "json" ELSE "key-value")
  ELSE IF allFlat(records) /\ Len(records) >= 3 THEN "csv"
  ELSE IF hasLongText(records) THEN "markdown"
  ELSE "json"

detectFormatFromData(records) ==
  IF Len(records) = 0 THEN "json"
  ELSE IF Len(records) = 1
    THEN (IF getMaxDepth(records[1], 0) > 2 THEN "json" ELSE "key-value")
  ELSE IF allFlat(records) /\ Len(records) > 3 THEN "csv"
  ELSE IF hasLongText(records) THEN "markdown"
  ELSE "json"

\* A variant that consults the target-tool table before the explicit format.
resolveFormat_targetFirst(res, explicit, target) ==
  IF Truthy(target) /\ target[1] \in DOMAIN TARGET_TOOL_FORMAT_MAP
    THEN TARGET_TOOL_FORMAT_MAP[target[1]]
  ELSE IF Truthy(explicit) THEN explicit[1]
  ELSE detectFormatFromData(res.records)

resolveFormat(res, explicit, target) ==
  IF Truthy(explicit) THEN explicit[1]
  ELSE IF Truthy(target) /\ target[1] \in DOMAIN TARGET_TOOL_FORMAT_MAP
    THEN TARGET_TOOL_FORMAT_MAP[target[1]]
  ELSE detectFormatFromData(res.records)

(***************************************************************************)
(* Field mapping                                                           *)
(***************************************************************************)
\* Array.prototype.find over the keys of an object, by position: the index of
\* the first key satisfying Test, 0 when there is none.
FindIndex(keys, Test(_)) ==
  IF \E i \in 1..Len(keys) : Test(keys[i])
    THEN CHOOSE i \in 1..Len(keys) :
           Test(keys[i]) /\ \A j \in 1..(i - 1) : ~Test(keys[j])
    ELSE 0

lowerKeys(obj) == [i \in 1..Len(obj.v) |-> toLowerCase(obj.v[i][1]) \o <<>>] \o <<>>

\* The key at the position where find() stopped.
keyAt(obj, index) == IF index = 0 THEN None ELSE Some(obj.v[index][1])

exactIndex(keys, expected) == FindIndex(keys, LAMBDA key : key = expected)

containsIndex(keys, expected) ==
  FindIndex(keys, LAMBDA key : includes(key, expected) \/ includes(expected, key))

exactKey(sourceRecord, expected) ==
  keyAt(sourceRecord,
        exactIndex(lowerKeys(sourceRecord), toLowerCase(expected) \o <<>>))

containsKey(sourceRecord, expected) ==
  keyAt(sourceRecord,
        containsIndex(lowerKeys(sourceRecord), toLowerCase(expected) \o <<>>))

\* if (exactKey) ... if (containsKey) ... else undefined
mappedValue(sourceRecord, exact, contains) ==
  IF TruthyKey(exact) THEN Get(sourceRecord, exact[1])
  ELSE IF TruthyKey(contains) THEN Get(sourceRecord, contains[1])
  ELSE Undefined

\* The body of the loop over expectedFields: the value mapped to one field.
mapField(sourceRecord, expected) ==
  mappedValue(sourceRecord, exactKey(sourceRecord, expected),
              containsKey(sourceRecord, expected))

\* null is None; a mapping is Some(object), one entry per expected field.
mapFieldsToTarget(records, target) ==
  IF target \notin DOMAIN TARGET_TOOL_FIELDS \/ Len(records) = 0 THEN None
  ELSE LET expectedFields == TARGET_TOOL_FIELDS[target]
       IN Some(Obj([i \in 1..Len(expectedFields) |->
                      <<expectedFields[i],
                        mapField(records[1], expectedFields[i])>>]))

(***************************************************************************)
(* Renderers.  A rendering is [kind |-> "json", doc |-> the document the   *)
(* JSON text denotes] or [kind |-> "lines", lines |-> the lines joined by  *)
(* "\n"], a line being a tuple: its template's name, then the interpolated *)
(* parts.                                                                  *)
(***************************************************************************)
RECURSIVE Concat(_, _, _)
\* the sequences from the first-th to the last-th, one after the other
Concat(seqs, first, last) ==
  IF first > last THEN <<>>
  ELSE IF first = last THEN seqs[first]
  ELSE Concat(seqs, first, (first + last) \div 2)
         \o Concat(seqs, (first + last) \div 2 + 1, last)

Flatten(seqs) == Concat(seqs \o <<>>, 1, Len(seqs))

renderJson(res, mapped) ==
  [kind |-> "json",
   doc |-> [metadata |-> res.metadata,
            records |-> JsonValue(Arr(res.records)).v,
            mappedFields |-> IF mapped # None
                               THEN Some(JsonValue(mapped[1]))
                               ELSE None],
   lines |-> <<>>]

Lines(ls) == [kind |-> "lines", doc |-> <<>>, lines |-> ls]

\* typeof value === "object" && value !== null ? JSON.stringify(value)
\*                                              : String(value ?? "")
display(val) ==
  IF TypeofObject(val) /\ val.k # "null" THEN JsonText(val)
  ELSE IF val.k \in {"null", "undefined"} THEN <<>>
  ELSE JsString(val)

warningLines(metadata, tag) ==
  IF Len(metadata.warnings) > 0 THEN << <<tag, metadata.warnings>> >> ELSE <<>>

renderMarkdown(res) ==
  Lines(<< <<"front-matter", res.metadata.source, res.metadata.extractedAt,
             res.metadata.recordCount>> >>
        \o Flatten([i \in 1..Len(res.records) |->
             << <<"## Record", i>> >>
             \o [j \in 1..Len(res.records[i].v) |->
                   <<"bullet", res.records[i].v[j][1],
                     display(res.records[i].v[j][2])>>]
             \o << <<"">> >>])
        \o (IF Len(res.metadata.warnings) > 0
              THEN << <<"## Warnings">> >>
                   \o [w \in 1..Len(res.metadata.warnings) |->
                         <<"warning", res.metadata.warnings[w]>>]
              ELSE <<>>))

renderKeyValue(res) ==
  Lines(Flatten([i \in 1..Len(res.records) |->
             (IF Len(res.records) > 1 THEN << <<"=== Record", i>> >> ELSE <<>>)
             \o [j \in 1..Len(res.records[i].v) |->
                   <<"key-value", res.records[i].v[j][1],
                     display(res.records[i].v[j][2])>>]
             \o (IF i < Len(res.records) THEN << <<"">> >> ELSE <<>>)])
        \o warningLines(res.metadata, "Warnings"))

\* The union of the records' keys, in the order a Set first sees them.
keySet(records) == UNION {Range(ObjectKeys(records[i])) : i \in 1..Len(records)}

firstRecord(records, key) ==
  CHOOSE i \in 1..Len(records) :
    /\ key \in Range(ObjectKeys(records[i]))
    /\ \A j \in 1..(i - 1) : key \notin Range(ObjectKeys(records[j]))

position(obj, key) == CHOOSE j \in 1..Len(obj.v) : obj.v[j][1] = key

seenBefore(records, k1, k2) ==
  \/ firstRecord(records, k1) < firstRecord(records, k2)
  \/ /\ firstRecord(records, k1) = firstRecord(records, k2)
     /\ position(records[firstRecord(records, k1)], k1)
          < position(records[firstRecord(records, k1)], k2)

allKeys(records) ==
  [p \in 1..Cardinality(keySet(records)) |->
     CHOOSE key \in keySet(records) :
       Cardinality({k2 \in keySet(records) : seenBefore(records, k2, key)}) = p - 1]
    \o <<>>

\* A canonical array index ("0", "7", "12"): such property names are
\* enumerated first, in ascending order, by Object.entries.
IsDigit(c) == \E i \in 1..Len(Digits) : Digits[i] = c

DigitValue(c) == CHOOSE i \in 0..9 : Digits[i + 1] = c

\* a < b for two digit strings without leading zeros
NumLess(a, b) ==
  \/ Len(a) < Len(b)
  \/ /\ Len(a) = Len(b)
     /\ \E i \in 1..Len(a) :
          /\ DigitValue(a[i]) < DigitValue(b[i])
          /\ \A j \in 1..(i - 1) : a[j] = b[j]

\* An array index is below 2^32 - 1.
IsArrayIndex(s) ==
  /\ Len(s) >= 1
  /\ \A i \in 1..Len(s) : IsDigit(s[i])
  /\ (Len(s) > 1 => s[1] # "0")
  /\ NumLess(s, <<"4", "2", "9", "4", "9", "6", "7", "2", "9", "5">>)

\* The distinct elements of a sequence, in order of first occurrence.
Distinct(xs) ==
  LET firsts == SelectSeq([i \in 1..Len(xs) |->
                             <<xs[i], \A j \in 1..(i - 1) : xs[j] # xs[i]>>],
                          LAMBDA e : e[2])
  IN [i \in 1..Len(firsts) |-> firsts[i][1]] \o <<>>

Count(xs, x) == Cardinality({i \in 1..Len(xs) : xs[i] = x})

ascending(indices) ==
  [p \in 1..Len(indices) |->
     CHOOSE n \in Range(indices) :
       Cardinality({m \in Range(indices) : NumLess(m, n)}) = p - 1] \o <<>>

\* Object.keys of an object whose properties were created in this order:
\* index-like names ascending, then the others in creation order.
propertyOrder(names) ==
  ascending(SelectSeq(names, IsArrayIndex))
    \o SelectSeq(names, LAMBDA n : ~IsArrayIndex(n))

countsOf(texts, names) ==
  [i \in 1..Len(names) |-> <<names[i], Count(texts, names[i])>>] \o <<>>

\* Object.entries(counts): each String(value) with its number of occurrences.
countEntries(texts) == countsOf(texts, propertyOrder(Distinct(texts)))

substring(str, n) == SubSeq(str, 1, IF Len(str) < n THEN Len(str) ELSE n)

\* values = records.map(r => r[key]).filter(v => v !== undefined && v !== null)
valuesOf(records, key) ==
  SelectSeq([i \in 1..Len(records) |-> Get(records[i], key)],
            LAMBDA val : val.k \notin {"undefined", "null"})

summaryOf(key, texts) ==
  IF Cardinality(Range(texts)) <= 5 /\ Len(texts) > 1
    THEN << <<"distribution", key, countEntries(texts)>> >>
  ELSE IF Cardinality(Range(texts)) > 5
    THEN << <<"unique values", key, Cardinality(Range(texts))>> >>
  ELSE IF Len(texts) = 1
    THEN << <<"value", key, substring(texts[1], 100)>> >>
  ELSE <<>>

stringsOf(values) == [i \in 1..Len(values) |-> JsString(values[i])] \o <<>>

summaryLine(records, key) == summaryOf(key, stringsOf(valuesOf(records, key)))

summaryLines(records, keys) ==
  Flatten([p \in 1..Len(keys) |-> summaryLine(records, keys[p])])

renderSummary(res) ==
  Lines(<< <<"Extracted", res.metadata.recordCount, res.metadata.source,
             res.metadata.extractedAt>> >>
        \o (IF Len(res.records) = 0 THEN << <<"No records found.">> >>
            ELSE summaryLines(res.records, allKeys(res.records))
                 \o warningLines(res.metadata, "Warnings")))

\* str.replace(/"/g, '""')
doubleQuotes(str) ==
  Flatten([i \in 1..Len(str) |-> IF str[i] = "\"" THEN <<"\"", "\"">> ELSE <<str[i]>>])

\* A variant that does not treat a newline as special.
csvEscape_newlineBare(str) ==
  IF includes(str, <<",">>) \/ includes(str, <<"\"">>)
    THEN <<"\"">> \o doubleQuotes(str) \o <<"\"">>
    ELSE str

\* Escape CSV: quote if contains comma, quote, or newline
csvEscape(str) ==
  IF includes(str, <<",">>) \/ includes(str, <<"\"">>) \/ includes(str, <<"\n">>)
    THEN <<"\"">> \o doubleQuotes(str) \o <<"\"">>
    ELSE str

\* The text of a value before escaping.
csvText(val) == IF TypeofObject(val) THEN JsonText(val) ELSE JsString(val)

csvCell(record, header) ==
  IF Get(record, header).k \in {"undefined", "null"} THEN <<>>
  ELSE csvEscape(csvText(Get(record, header)))

csvRows(records, headers) ==
  [i \in 1..Len(records) |->
     <<"row", [h \in 1..Len(headers) |-> csvCell(records[i], headers[h])] \o <<>> >>]

\* headers.join(","), row.join(","): the text of a line of fields
csvLine(fields) == Join(fields, <<",">>)

\* A variant whose comment line for no records also states the timestamp.
csvEmptyComment_timestamp(metadata) ==
  <<"comment", <<"source", "extractedAt", "records">>, metadata.source,
    Some(metadata.extractedAt), 0>>

\* The comment line when there are no records: source and a literal count.
csvEmptyComment(metadata) ==
  <<"comment", <<"source", "records">>, metadata.source, None, 0>>

csvComment(metadata) ==
  <<"comment", <<"source", "extractedAt", "records">>, metadata.source,
    Some(metadata.extractedAt), metadata.recordCount>>

renderCsv(res) ==
  IF Len(res.records) = 0
    THEN Lines(<<csvEmptyComment(res.metadata), <<"(no data)">>>>)
    ELSE Lines(<<csvComment(res.metadata), <<"header", allKeys(res.records)>>>>
               \o csvRows(res.records, allKeys(res.records)))

(***************************************************************************)
(* format                                                                  *)
(***************************************************************************)
\* The result after format() wrote the resolved format and the target tool
\* into its metadata.
formatted(res, explicit, target) ==
  [res EXCEPT !.metadata.outputFormat = resolveFormat(res, explicit, target),
              !.metadata.targetTool = IF Truthy(target) THEN target ELSE @]

mappedFieldsOf(res, target) ==
  IF Truthy(target) THEN mapFieldsToTarget(res.records, target[1]) ELSE None

\* A variant that appends the mapping to the line-based renderings too.
render_mappingEverywhere(res, fmt, mapped) ==
  LET section == IF mapped = None THEN <<>> ELSE << <<"mappedFields", mapped[1]>> >>
  IN CASE fmt = "json" -> renderJson(res, mapped)
       [] fmt = "markdown" -> Lines(renderMarkdown(res).lines \o section)
       [] fmt = "summary" -> Lines(renderSummary(res).lines \o section)
       [] fmt = "key-value" -> Lines(renderKeyValue(res).lines \o section)
       [] fmt = "csv" -> Lines(renderCsv(res).lines \o section)
       [] OTHER -> renderJson(res, mapped)

\* The switch of format(): the text returned.
render(res, fmt, mapped) ==
  CASE fmt = "json" -> renderJson(res, mapped)
    [] fmt = "markdown" -> renderMarkdown(res)
    [] fmt = "summary" -> renderSummary(res)
    [] fmt = "key-value" -> renderKeyValue(res)
    [] fmt = "csv" -> renderCsv(res)
    [] OTHER -> renderJson(res, mapped)

format(res, explicit, target) ==
  render(formatted(res, explicit, target),
         resolveFormat(res, explicit, target),
         mappedFieldsOf(res, target))

(***************************************************************************)
(* Strings of the extraction tools: trimming, prefixes and regular         *)
(* expressions.                                                            *)
(***************************************************************************)
\* The characters String.prototype.trim removes and \s matches.
WhiteSpace == {" ", "\t", "\n", "\r", "\f"}

Letters == Range(LowerCase) \cup Range(UpperCase)

\* The characters \w matches.
WordChars == Letters \cup Range(Digits) \cup {"_"}

\* String.prototype.trim
trim(str) ==
  IF \A i \in 1..Len(str) : str[i] \in WhiteSpace THEN <<>>
  ELSE SubSeq(str,
              CHOOSE i \in 1..Len(str) :
                str[i] \notin WhiteSpace
                  /\ \A j \in 1..(i - 1) : str[j] \in WhiteSpace,
              CHOOSE i \in 1..Len(str) :
                str[i] \notin WhiteSpace
                  /\ \A j \in (i + 1)..Len(str) : str[j] \in WhiteSpace)

startsWith(str, prefix) ==
  Len(str) >= Len(prefix) /\ SubSeq(str, 1, Len(prefix)) = prefix

endsWith(str, suffix) ==
  Len(str) >= Len(suffix)
    /\ SubSeq(str, Len(str) - Len(suffix) + 1, Len(str)) = suffix

\* A regular expression is a tree of nodes.
Node(t, cs, sub, n) == [t |-> t, cs |-> cs, sub |-> sub, n |-> n]
Chr(cs) == Node("chr", cs, <<>>, 0)
NotChr(cs) == Node("not", cs, <<>>, 0)
AnyChar == Node("not", {"\n", "\r"}, <<>>, 0)
Cat(sub) == Node("cat", {}, sub, 0)
Alt(sub) == Node("alt", {}, sub, 0)
Opt(r) == Node("opt", {}, <<r>>, 0)
Star(r) == Node("star", {}, <<r>>, 0)
Plus(r) == Cat(<<r, Star(r)>>)
Grp(n, r) == Node("grp", {}, <<r>>, n)
\* a literal word, and the same under the i flag: the characters accepted at
\* each position
Word(w) == Node("lit", {}, [i \in 1..Len(w) |-> {w[i]}] \o <<>>, 0)
WordI(w) ==
  Node("lit", {},
       [i \in 1..Len(w) |->
          {w[i], LowerChar(w[i])}
            \cup {u \in Range(UpperCase) : LowerChar(u) = w[i]}] \o <<>>, 0)
\* an alternation of literal words
Words(ws) == Alt([i \in 1..Len(ws) |-> Word(ws[i])])
Sp == Chr(WhiteSpace)
W == Chr(WordChars)

\* Whether a character-class node accepts the character c.
Accepts(re, c) == IF re.t = "chr" THEN c \in re.cs ELSE c \notin re.cs

\* The position after the longest run of characters of str, from position i,
\* that the character-class node accepts.
Run(re, str, i) ==
  CHOOSE j \in i..(Len(str) + 1) :
    /\ j = Len(str) + 1 \/ ~Accepts(re, str[j])
    /\ \A h \in i..(j - 1) : Accepts(re, str[h])

\* The ways a node matches str from position i, in the order a backtracking
\* matcher tries them: each is <<the position after the match, the groups>>.
RECURSIVE Match(_, _, _, _)
RECURSIVE MatchCat(_, _, _, _, _)
RECURSIVE MatchEach(_, _, _, _)
Match(re, str, i, caps) ==
  CASE re.t = "chr" ->
         IF i <= Len(str) /\ str[i] \in re.cs THEN << <<i + 1, caps>> >> ELSE <<>>
    [] re.t = "not" ->
         IF i <= Len(str) /\ str[i] \notin re.cs THEN << <<i + 1, caps>> >> ELSE <<>>
    [] re.t = "lit" ->
         IF /\ i + Len(re.sub) - 1 <= Len(str)
            /\ \A k \in 1..Len(re.sub) : str[i + k - 1] \in re.sub[k]
           THEN << <<i + Len(re.sub), caps>> >>
           ELSE <<>>
    [] re.t = "cat" -> MatchCat(re.sub, 1, str, i, caps)
    [] re.t = "alt" ->
         Flatten([a \in 1..Len(re.sub) |-> Match(re.sub[a], str, i, caps)])
    [] re.t = "opt" -> Match(re.sub[1], str, i, caps) \o << <<i, caps>> >>
    [] re.t = "star" ->
         IF re.sub[1].t \in {"chr", "not"}
           THEN \* a run of one character class: the longest run first
                LET stop == Run(re.sub[1], str, i)
                IN [k \in 1..(stop - i + 1) |-> <<stop - k + 1, caps>>] \o <<>>
           ELSE MatchEach(<<re>>, 1, str,
                          SelectSeq(Match(re.sub[1], str, i, caps),
                                    LAMBDA m : m[1] > i))
                  \o << <<i, caps>> >>
    [] re.t = "grp" ->
         LET inner == Match(re.sub[1], str, i, caps)
         IN [m \in 1..Len(inner) |->
               <<inner[m][1],
                 [inner[m][2] EXCEPT ![re.n] = Some(SubSeq(str, i, inner[m][1] - 1))]>>]
              \o <<>>

\* the nodes of a concatenation from the k-th on
MatchCat(sub, k, str, i, caps) ==
  IF k > Len(sub) THEN << <<i, caps>> >>
  ELSE MatchEach(sub, k + 1, str, Match(sub[k], str, i, caps))

\* continue with the nodes from the k-th on after each of the matches found
MatchEach(sub, k, str, found) ==
  IF Len(found) = 1 THEN MatchCat(sub, k, str, found[1][1], found[1][2])
  ELSE Flatten([m \in 1..Len(found) |->
                  MatchCat(sub, k, str, found[m][1], found[m][2])])

NoGroups(n) == [g \in 1..n |-> None] \o <<>>

\* str.match(/^re/): None, or Some(<<end, groups>>) for the match found first.
matchStart(re, groups, str) ==
  LET found == Match(re, str, 1, NoGroups(groups))
  IN IF Len(found) = 0 THEN None ELSE Some(found[1])

\* The position after the non-empty match of re found first at each position
\* of str, 0 where there is none.
matchEnds(str, re) ==
  [i \in 1..Len(str) |->
     LET found == Match(re, str, i, <<>>)
     IN IF Len(found) > 0 /\ found[1][1] > i THEN found[1][1] ELSE 0] \o <<>>

\* The positions the scan reaches from each position in at most twice as many
\* steps as in `reach`.
Twice(reach) ==
  [i \in 1..Len(reach) |->
     UNION {IF j \in 1..Len(reach) THEN reach[j] ELSE {j} : j \in reach[i]}] \o <<>>

RECURSIVE Scanned(_, _)
Scanned(reach, steps) ==
  IF steps >= Len(reach) THEN reach ELSE Scanned(Twice(reach), 2 * steps)

\* The positions where the scan of a global replace stands: the first one,
\* and after each of them the end of the match found there or the next one.
scanPositions(ends) ==
  IF Len(ends) = 0 THEN {}
  ELSE Scanned([i \in 1..Len(ends) |->
                  {i, IF ends[i] > 0 THEN ends[i] ELSE i + 1}] \o <<>>, 1)[1]

replaceAt(str, ends, at, By(_, _)) ==
  Flatten([i \in 1..Len(str) |->
             IF i \notin at THEN <<>>
             ELSE IF ends[i] > 0 THEN By(i, ends[i]) ELSE <<str[i]>>])

\* str.replace(/re/g, ...): every match, leftmost first, replaced by what
\* By(the position of the match, the position after it) gives.
replaceWith(str, re, By(_, _)) ==
  replaceAt(str \o <<>>, matchEnds(str, re), scanPositions(matchEnds(str, re)), By)

\* str.replace(/re/g, by); the empty string has no match to replace
replaceAll(str, re, by) ==
  IF Len(str) = 0 THEN <<>> ELSE replaceWith(str, re, LAMBDA i, end : by)

(***************************************************************************)
(* extract_code                                                            *)
(***************************************************************************)
\* The words of the patterns and of the record types.
w_export == <<"e", "x", "p", "o", "r", "t">>
w_interface == <<"i", "n", "t", "e", "r", "f", "a", "c", "e">>
w_type == <<"t", "y", "p", "e">>
w_enum == <<"e", "n", "u", "m">>
w_class == <<"c", "l", "a", "s", "s">>
w_abstract == <<"a", "b", "s", "t", "r", "a", "c", "t">>
w_async == <<"a", "s", "y", "n", "c">>
w_function == <<"f", "u", "n", "c", "t", "i", "o", "n">>
w_public == <<"p", "u", "b", "l", "i", "c">>
w_private == <<"p", "r", "i", "v", "a", "t", "e">>
w_protected == <<"p", "r", "o", "t", "e", "c", "t", "e", "d">>
w_static == <<"s", "t", "a", "t", "i", "c">>
w_const == <<"c", "o", "n", "s", "t">>
w_let == <<"l", "e", "t">>
w_var == <<"v", "a", "r">>
w_internal == <<"i", "n", "t", "e", "r", "n", "a", "l">>
w_partial == <<"p", "a", "r", "t", "i", "a", "l">>
w_struct == <<"s", "t", "r", "u", "c", "t">>
w_record == <<"r", "e", "c", "o", "r", "d">>
w_virtual == <<"v", "i", "r", "t", "u", "a", "l">>
w_override == <<"o", "v", "e", "r", "r", "i", "d", "e">>
w_table == <<"t", "a", "b", "l", "e">>
w_def == <<"d", "e", "f">>
w_import == <<"i", "m", "p", "o", "r", "t">>
w_require == <<"r", "e", "q", "u", "i", "r", "e">>
w_using == <<"u", "s", "i", "n", "g">>
w_from == <<"f", "r", "o", "m">>
w_line == <<"l", "i", "n", "e">>
w_method == <<"m", "e", "t", "h", "o", "d">>
w_doc_comment == <<"d", "o", "c", "-", "c", "o", "m", "m", "e", "n", "t">>
w_xml_doc_comment == <<"x", "m", "l", "-", "d", "o", "c", "-", "c", "o", "m", "m", "e", "n", "t">>
k_line == w_line
k_signature == <<"s", "i", "g", "n", "a", "t", "u", "r", "e">>

LANGUAGE_MAP ==
  (<<".", "t", "s">> :> "typescript")
    @@ (<<".", "t", "s", "x">> :> "typescript")
    @@ (<<".", "j", "s">> :> "javascript")
    @@ (<<".", "j", "s", "x">> :> "javascript")
    @@ (<<".", "c", "s">> :> "csharp")
    @@ (<<".", "x", "p", "p">> :> "xpp")
    @@ (<<".", "x", "m", "l">> :> "xml")
    @@ (<<".", "j", "s", "o", "n">> :> "json")
    @@ (<<".", "p", "y">> :> "python")
    @@ (<<".", "j", "a", "v", "a">> :> "java")
    @@ (<<".", "s", "q", "l">> :> "sql")

\* detectLanguage(filePath), given extname(filePath)
detectLanguage(ext) ==
  IF toLowerCase(ext) \in DOMAIN LANGUAGE_MAP THEN LANGUAGE_MAP[toLowerCase(ext)]
  ELSE "unknown"

Visibility == Words(<<w_public, w_private, w_protected>>)
VisibilityCs == Words(<<w_public, w_private, w_protected, w_internal>>)
\* (word\s+)? as group n
OptWord(n, w) == Opt(Grp(n, Cat(<<Word(w), Plus(Sp)>>)))
\* \w[\w<>\[\],\s]*
TypeName == Cat(<<W, Star(Chr(WordChars \cup WhiteSpace \cup {"<", ">", "[", "]", ","}))>>)

\* Each pattern with the number of its groups.
patterns ==
  [typescript |->
     << <<Cat(<<OptWord(1, w_export),
                Grp(2, Alt(<<Word(w_interface), Word(w_type), Word(w_enum),
                             Word(w_class),
                             Cat(<<Word(w_abstract), Plus(Sp), Word(w_class)>>)>>)),
                Plus(Sp), Grp(3, Plus(W))>>), 3>>,
        <<Cat(<<OptWord(1, w_export), OptWord(2, w_async), Word(w_function),
                Plus(Sp), Grp(3, Plus(W))>>), 3>>,
        <<Cat(<<Star(Sp),
                Grp(1, Words(<<w_public, w_private, w_protected, w_static, w_async>>)),
                Plus(Sp), Grp(2, Plus(W)), Star(Sp), Chr({"("})>>), 2>> >>,
   javascript |->
     << <<Cat(<<OptWord(1, w_export), Grp(2, Word(w_class)), Plus(Sp),
                Grp(3, Plus(W))>>), 3>>,
        <<Cat(<<OptWord(1, w_export), OptWord(2, w_async), Word(w_function),
                Plus(Sp), Grp(3, Plus(W))>>), 3>>,
        <<Cat(<<Star(Sp), Grp(1, Words(<<w_const, w_let, w_var>>)), Plus(Sp),
                Grp(2, Plus(W)), Star(Sp), Chr({"="}), Star(Sp),
                OptWord(3, w_async), Chr({"("})>>), 3>> >>,
   csharp |->
     << <<Cat(<<Star(Sp), Opt(Grp(1, VisibilityCs)), Star(Sp),
                OptWord(2, w_static), OptWord(3, w_partial),
                Grp(4, Words(<<w_class, w_interface, w_struct, w_enum, w_record>>)),
                Plus(Sp), Grp(5, Plus(W))>>), 5>>,
        <<Cat(<<Star(Sp), Opt(Grp(1, VisibilityCs)), Star(Sp),
                OptWord(2, w_static), OptWord(3, w_async), OptWord(4, w_virtual),
                OptWord(5, w_override), TypeName, Plus(Sp), Grp(6, Plus(W)),
                Star(Sp), Chr({"("})>>), 6>> >>,
   xpp |->
     << <<Cat(<<Star(Sp), Opt(Grp(1, Visibility)), Star(Sp), OptWord(2, w_static),
                Grp(3, Words(<<w_class, w_interface, w_table>>)), Plus(Sp),
                Grp(4, Plus(W))>>), 4>>,
        <<Cat(<<Star(Sp), Opt(Grp(1, Visibility)), Star(Sp), OptWord(2, w_static),
                Plus(W), Plus(Sp), Grp(3, Plus(W)), Star(Sp), Chr({"("})>>), 3>> >>,
   python |->
     << <<Cat(<<Word(w_class), Plus(Sp), Grp(1, Plus(W))>>), 1>>,
        <<Cat(<<OptWord(1, w_async), Word(w_def), Plus(Sp), Grp(2, Plus(W))>>), 2>> >>,
   java |->
     << <<Cat(<<Star(Sp), Opt(Grp(1, Visibility)), Star(Sp), OptWord(2, w_static),
                OptWord(3, w_abstract),
                Grp(4, Words(<<w_class, w_interface, w_enum>>)), Plus(Sp),
                Grp(5, Plus(W))>>), 5>>,
        <<Cat(<<Star(Sp), Opt(Grp(1, Visibility)), Star(Sp), OptWord(2, w_static),
                OptWord(3, w_abstract), TypeName, Plus(Sp), Grp(4, Plus(W)),
                Star(Sp), Chr({"("})>>), 4>> >>]

\* patterns[language] || patterns.typescript
langPatterns(language) ==
  IF language \in DOMAIN patterns THEN patterns[language] ELSE patterns.typescript


inferType(signature, language) ==
  LET s == toLowerCase(signature)
  IN IF includes(s, w_class) THEN w_class
     ELSE IF includes(s, w_interface) THEN w_interface
     ELSE IF includes(s, w_enum) THEN w_enum
     ELSE IF includes(s, w_struct) THEN w_struct
     ELSE IF includes(s, w_type \o <<" ">>) /\ language = "typescript" THEN w_type
     ELSE IF includes(s, w_function) \/ includes(s, w_def \o <<" ">>)
       THEN w_function
     ELSE IF includes(s, w_table) /\ language = "xpp" THEN w_table
     ELSE w_method

CodeRecord(type, name, line, signature) ==
  Obj(<< <<k_type, Str(type)>>, <<k_name, Str(name)>>, <<k_line, Num(line)>>,
         <<k_signature, Str(signature)>> >>)

\* The first pattern that matches the line: its index, 0 when none does.
firstPattern(line, pats) ==
  FindIndex(pats, LAMBDA p : matchStart(p[1], p[2], line) # None)

isBlank(str) == \A i \in 1..Len(str) : str[i] \in WhiteSpace

\* match.filter(g => g && !g.match(/^\s*$/)): the whole match, then the groups
nonEmpty(line, found) ==
  SelectSeq(<<Some(SubSeq(line, 1, found[1] - 1))>> \o found[2],
            LAMBDA g : g # None /\ g[1] # <<>> /\ ~isBlank(g[1]))

\* name.replace(/\s*\($/, "")
withoutParen(name) ==
  IF endsWith(name, <<"(">>)
    THEN LET kept == {i \in 1..(Len(name) - 1) : name[i] \notin WhiteSpace}
         IN SubSeq(name, 1, IF kept = {} THEN 0
                            ELSE CHOOSE i \in kept : \A j \in kept : i >= j)
    ELSE name

structureName(line, found) ==
  LET groups == nonEmpty(line, found)
  IN IF Len(groups) > 0 /\ groups[Len(groups)][1] # <<>>
       THEN groups[Len(groups)][1]
       ELSE substring(trim(line), 50)

structureRecord(line, i, pattern, language) ==
  CodeRecord(inferType(trim(line), language),
             withoutParen(structureName(line, matchStart(pattern[1], pattern[2], line)[1])),
             i, substring(trim(line), 200))

\* The records of the lines that satisfy Test, each built by Make(line, i).
linesWhere(lines, Test(_), Make(_, _)) ==
  LET hits == SelectSeq([i \in 1..Len(lines) |-> <<i, Test(lines[i])>>],
                        LAMBDA h : h[2])
  IN [h \in 1..Len(hits) |-> Make(lines[hits[h][1]], hits[h][1])]

extractStructure(lines, language) ==
  linesWhere(lines,
             LAMBDA line : firstPattern(line, langPatterns(language)) # 0,
             LAMBDA line, i :
               structureRecord(line, i,
                               langPatterns(language)[firstPattern(line, langPatterns(language))],
                               language))

importPatterns ==
  [typescript |-> Cat(<<Word(w_import), Plus(Sp), Star(AnyChar)>>),
   javascript |-> Cat(<<Words(<<w_import, w_require>>), Star(Sp), Opt(Chr({"("})),
                        Star(AnyChar)>>),
   csharp |-> Cat(<<Word(w_using), Plus(Sp), Star(AnyChar)>>),
   xpp |-> Cat(<<Word(w_using), Plus(Sp), Star(AnyChar)>>),
   python |-> Cat(<<Words(<<w_import, w_from>>), Plus(Sp), Star(AnyChar)>>),
   java |-> Cat(<<Word(w_import), Plus(Sp), Star(AnyChar)>>)]

importPattern(language) ==
  IF language \in DOMAIN importPatterns THEN importPatterns[language]
  ELSE importPatterns.typescript

extractImports(lines, language) ==
  linesWhere(lines,
             LAMBDA line : matchStart(importPattern(language), 0, trim(line)) # None,
             LAMBDA line, i : CodeRecord(w_import, trim(line), i, trim(line)))

isExport(line, language) ==
  \/ /\ language \in {"typescript", "javascript"}
     /\ startsWith(line, w_export \o <<" ">>)
  \/ /\ language \in {"csharp", "java", "xpp"}
     /\ matchStart(Cat(<<Word(w_public), Plus(Sp)>>), 0, line) # None

extractExports(lines, language) ==
  linesWhere(lines,
             LAMBDA line : isExport(trim(line), language),
             LAMBDA line, i :
               CodeRecord(w_export, substring(trim(line), 80), i,
                          substring(trim(line), 200)))

commentName(n) ==
  <<"C", "o", "m", "m", "e", "n", "t", " ", "a", "t", " ", "l", "i", "n", "e", " ">>
    \o NumText(n)

\* The loop of extractComments from line i on, with its three variables.
RECURSIVE commentsFrom(_, _, _, _, _)
commentsFrom(lines, i, inBlock, blockStart, blockLines) ==
  IF i > Len(lines) THEN <<>>
  ELSE LET line == trim(lines[i])
           opens == startsWith(line, <<"/", "*", "*">>) /\ ~inBlock
           closes == inBlock /\ includes(line, <<"*", "/">>)
           block == IF closes
                      THEN << CodeRecord(w_doc_comment, commentName(blockStart),
                                         blockStart,
                                         substring(Join(Append(blockLines, line),
                                                        <<"\n">>), 500)) >>
                      ELSE <<>>
           xml == IF startsWith(line, <<"/", "/", "/">>)
                    THEN << CodeRecord(w_xml_doc_comment, commentName(i), i,
                                       substring(line, 200)) >>
                    ELSE <<>>
       IN block \o xml
            \o commentsFrom(lines, i + 1,
                            IF opens THEN TRUE ELSE IF closes THEN FALSE ELSE inBlock,
                            IF opens THEN i ELSE blockStart,
                            IF opens THEN <<line>>
                            ELSE IF closes THEN <<>>
                            ELSE IF inBlock THEN Append(blockLines, line)
                            ELSE blockLines)

extractComments(lines) == commentsFrom(lines, 1, FALSE, 0, <<>>)

\* The cap of full mode.
MAX_FULL_LINES == 500

fullRecords(lines) ==
  [i \in 1..Len(lines) |-> CodeRecord(w_line, NumText(i), i, lines[i])]

\* The switch of the handler: the records of the mode.
codeRecords(lines, mode, lang) ==
  CASE mode = "full" ->
         IF Len(lines) > MAX_FULL_LINES
           THEN SubSeq(fullRecords(lines), 1, MAX_FULL_LINES)
           ELSE fullRecords(lines)
    [] mode = "structure" -> extractStructure(lines, lang)
    [] mode = "imports" -> extractImports(lines, lang)
    [] mode = "exports" -> extractExports(lines, lang)
    [] mode = "comments" -> extractComments(lines)
    [] OTHER -> extractStructure(lines, lang)

(***************************************************************************)
(* extract_json                                                            *)
(***************************************************************************)
\* String.prototype.split on a one-character separator
RECURSIVE splitFrom(_, _, _, _)
splitFrom(str, sep, i, part) ==
  IF i > Len(str) THEN <<part>>
  ELSE IF str[i] = sep THEN <<part>> \o splitFrom(str, sep, i + 1, <<>>)
  ELSE splitFrom(str, sep, i + 1, Append(part, str[i]))

split(str, sep) == splitFrom(str, sep, 1, <<>>)

\* The entries of an object in the order its properties are enumerated:
\* array-index names ascending, then the others in creation order.
orderEntries(entries) ==
  LET names == propertyOrder([i \in 1..Len(entries) |-> entries[i][1]])
  IN [p \in 1..Len(names) |->
        entries[CHOOSE i \in 1..Len(entries) : entries[i][1] = names[p]]]

\* result[key] = value: an existing property keeps its place
assign(entries, key, value) ==
  IF \E i \in 1..Len(entries) : entries[i][1] = key
    THEN [i \in 1..Len(entries) |->
            IF entries[i][1] = key THEN <<key, value>> ELSE entries[i]]
    ELSE Append(entries, <<key, value>>)

\* Object.assign(result, source)
RECURSIVE assignAll(_, _, _)
assignAll(entries, source, i) ==
  IF i > Len(source) THEN entries
  ELSE assignAll(assign(entries, source[i][1], source[i][2]), source, i + 1)

\* path.replace(/\[(\d+)\]/g, ".$1")
replaceIndex(str) ==
  replaceWith(str, Cat(<<Chr({"["}), Plus(Chr(Range(Digits))), Chr({"]"})>>),
              LAMBDA i, end : <<".">> \o SubSeq(str, i + 1, end - 2))

segmentsOf(path) ==
  split(replaceAll(replaceIndex(path),
                   Word(<<"[", "*", "]">>), <<".", "*">>), ".")

\* parseInt(str, 10): None for NaN, else Some(<<negative, digits>>)
parseInt(str) ==
  LET s == trim(str)
      signed == Len(s) > 0 /\ s[1] \in {"+", "-"}
      body == IF signed THEN Tail(s) ELSE s
      stops == {i \in 1..Len(body) : ~IsDigit(body[i])}
      digits == SubSeq(body, 1, IF stops = {} THEN Len(body)
                                ELSE (CHOOSE i \in stops : \A j \in stops : i <= j) - 1)
  IN IF Len(digits) = 0 THEN None
     ELSE Some(<<signed /\ s[1] = "-", digits>>)

RECURSIVE DigitsValue(_)
DigitsValue(digits) ==
  IF Len(digits) = 0 THEN 0
  ELSE 10 * DigitsValue(SubSeq(digits, 1, Len(digits) - 1))
         + DigitValue(digits[Len(digits)])

\* current[index] of an array
arrayItem(items, index) ==
  IF index[1] /\ \E i \in 1..Len(index[2]) : index[2][i] # "0" THEN Undefined
  ELSE IF Len(index[2]) > 9 \/ DigitsValue(index[2]) >= Len(items) THEN Undefined
  ELSE items[DigitsValue(index[2]) + 1]

RECURSIVE resolveJsonPath(_, _)
RECURSIVE resolveSegments(_, _, _)

\* A variant that leaves out the elements that lack the path.
fanOut_dropsUndefined(items, remaining) ==
  Arr(SelectSeq([n \in 1..Len(items) |-> resolveJsonPath(items[n], remaining)] \o <<>>,
                LAMBDA found : found.k # "undefined"))

\* current.map((item) => resolveJsonPath(item, remaining))
fanOut(items, remaining) ==
  Arr([n \in 1..Len(items) |-> resolveJsonPath(items[n], remaining)] \o <<>>)

resolveJsonPath(obj, path) == resolveSegments(obj, segmentsOf(path), 1)

\* The loop over the segments from the i-th on.
resolveSegments(current, segments, i) ==
  IF i > Len(segments) THEN current
  ELSE IF current.k \in {"null", "undefined"} THEN Undefined
  ELSE IF segments[i] = <<"*">> /\ current.k = "array"
    THEN (IF Join(SubSeq(segments, i + 1, Len(segments)), <<".">>) # <<>>
            THEN fanOut(current.v,
                        Join(SubSeq(segments, i + 1, Len(segments)), <<".">>))
            ELSE current)
  ELSE IF current.k = "array"
    THEN (IF parseInt(segments[i]) = None THEN Undefined
          ELSE resolveSegments(arrayItem(current.v, parseInt(segments[i])[1]),
                               segments, i + 1))
  ELSE IF current.k = "object"
    THEN resolveSegments(Get(current, segments[i]), segments, i + 1)
  ELSE Undefined

RECURSIVE flattenInto(_, _, _, _)
\* flattenObject(obj, prefix)
flattenObject(obj, prefix) == Obj(orderEntries(flattenInto(obj.v, 1, prefix, <<>>)))

\* The loop over Object.entries(obj) from the i-th entry on.
flattenInto(entries, i, prefix, flat) ==
  IF i > Len(entries) THEN flat
  ELSE LET fullKey == IF prefix # <<>> THEN prefix \o <<".">> \o entries[i][1]
                      ELSE entries[i][1]
       IN flattenInto(entries, i + 1, prefix,
                      IF entries[i][2].k = "object"
                        THEN assignAll(flat, flattenObject(entries[i][2], fullKey).v, 1)
                        ELSE assign(flat, fullKey, entries[i][2]))

k_value == <<"v", "a", "l", "u", "e">>

\* Normalize to array of records
normalize(resolved) ==
  IF resolved.k = "array"
    THEN [i \in 1..Len(resolved.v) |->
            IF TypeofObject(resolved.v[i]) /\ resolved.v[i].k # "null"
              THEN resolved.v[i]
              ELSE Obj(<< <<k_value, resolved.v[i]>> >>)]
  ELSE IF resolved.k = "object" THEN <<resolved>>
  ELSE << Obj(<< <<k_value, resolved>> >>) >>

fieldList(selectFields) ==
  LET parts == split(selectFields, ",") IN [i \in 1..Len(parts) |-> trim(parts[i])]

\* The fields of the list that the record has, in the order of the list.
RECURSIVE pick(_, _, _, _)
pick(record, fields, i, filtered) ==
  IF i > Len(fields) THEN filtered
  ELSE pick(record, fields, i + 1,
            IF \E j \in 1..Len(record.v) : record.v[j][1] = fields[i]
              THEN assign(filtered, fields[i], Get(record, fields[i]))
              ELSE filtered)

selectRecordFields(records, selectFields) ==
  IF selectFields # None /\ selectFields[1] # <<>>
    THEN [r \in 1..Len(records) |->
            Obj(orderEntries(pick(records[r], fieldList(selectFields[1]), 1, <<>>)))]
    ELSE records

flattenRecords(records, flatten) ==
  IF flatten THEN [r \in 1..Len(records) |-> flattenObject(records[r], <<>>)]
  ELSE records

\* The cap on the records of extract_json.
MAX_JSON_RECORDS == 500

(***************************************************************************)
(* extract_pdf                                                             *)
(***************************************************************************)
k_pageNumber == <<"p", "a", "g", "e", "N", "u", "m", "b", "e", "r">>
k_text == <<"t", "e", "x", "t">>
k_tables == <<"t", "a", "b", "l", "e", "s">>
k_headers == <<"h", "e", "a", "d", "e", "r", "s">>
k_rows == <<"r", "o", "w", "s">>

\* The cap on the text of a page.
MAX_PAGE_TEXT == 10000

\* The tables of the pages that have some, as the Map the handler fills:
\* the last entry of a page number wins.
tablesOf(tablePages, num) ==
  LET having == {p \in 1..Len(tablePages) :
                   tablePages[p].num = num /\ Len(tablePages[p].tables) > 0}
  IN IF having = {} THEN None
     ELSE Some(tablePages[CHOOSE p \in having : \A q \in having : p >= q].tables)

\* { headers: table[0], rows: table.slice(1) }
tableObject(table) ==
  IF Len(table.v) = 0
    THEN Obj(<< <<k_headers, Arr(<<>>)>>, <<k_rows, Arr(<<>>)>> >>)
    ELSE Obj(<< <<k_headers, table.v[1]>>, <<k_rows, Arr(Tail(table.v))>> >>)

pdfRecord(page, tablePages) ==
  Obj(<< <<k_pageNumber, Num(page.num)>>,
         <<k_text, Str(substring(trim(page.text), MAX_PAGE_TEXT))>> >>
      \o (IF tablesOf(tablePages, page.num) # None
             THEN << <<k_tables,
                       Arr([n \in 1..Len(tablesOf(tablePages, page.num)[1]) |->
                              tableObject(tablesOf(tablePages, page.num)[1][n])])>> >>
             ELSE <<>>))

pdfRecords(pages, tablePages) ==
  [p \in 1..Len(pages) |-> pdfRecord(pages[p], tablePages)]

\* The warnings of the handler, in the order it pushes them.
pdfWarnings(pages, tablesFailed) ==
  (IF tablesFailed THEN << <<"Table extraction failed, returning text only.">> >>
   ELSE <<>>)
    \o [w \in 1..Len(SelectSeq(pages, LAMBDA p : Len(trim(p.text)) > MAX_PAGE_TEXT)) |->
          <<"Page text truncated to 10,000 characters.",
            SelectSeq(pages, LAMBDA p : Len(trim(p.text)) > MAX_PAGE_TEXT)[w].num>>]

\* parseInt(str, 10) as a number: None stands for NaN
parseNumber(str) ==
  IF parseInt(str) = None THEN None
  ELSE Some(IF parseInt(str)[1][1] THEN 0 - DigitsValue(parseInt(str)[1][2])
            ELSE DigitsValue(parseInt(str)[1][2]))

\* for (let i = start; i <= end; i++) pageNumbers.push(i), of a part with "-"
rangePages(part) ==
  LET startStr == split(part, "-")[1]
      endStr == split(part, "-")[2]
  IN IF parseNumber(startStr) = None \/ parseNumber(endStr) = None THEN <<>>
     ELSE LET start == Max(1, parseNumber(startStr)[1])
              end == parseNumber(endStr)[1]
          IN [i \in 1..(end - start + 1) |-> start + i - 1] \o <<>>

\* if (!isNaN(page) && page > 0) pageNumbers.push(page)
singlePage(part) ==
  IF parseNumber(part) # None /\ parseNumber(part)[1] > 0
    THEN <<parseNumber(part)[1]>>
    ELSE <<>>

pageNumbers(pages) ==
  LET parts == split(pages, ",")
  IN Flatten([i \in 1..Len(parts) |->
                IF includes(trim(parts[i]), <<"-">>) THEN rangePages(trim(parts[i]))
                ELSE singlePage(trim(parts[i]))])

\* [...new Set(pageNumbers)].sort((a, b) => a - b)
sortedSet(numbers) ==
  [p \in 1..Cardinality(Range(numbers)) |->
     CHOOSE n \in Range(numbers) :
       Cardinality({m \in Range(numbers) : m < n}) = p - 1] \o <<>>

\* buildParseParams(pages): None for {} (every page), Some(partial) otherwise
buildParseParams(pages) ==
  IF pages = None \/ pages[1] = <<>> \/ toLowerCase(pages[1]) = <<"a", "l", "l">>
    THEN None
  ELSE IF Len(pageNumbers(pages[1])) > 0
    THEN Some(sortedSet(pageNumbers(pages[1])))
  ELSE None

(***************************************************************************)
(* extract_email                                                           *)
(***************************************************************************)
k_id == <<"i", "d">>
k_subject == <<"s", "u", "b", "j", "e", "c", "t">>
k_fromName == <<"f", "r", "o", "m", "N", "a", "m", "e">>
k_fromEmail == <<"f", "r", "o", "m", "E", "m", "a", "i", "l">>
k_receivedDateTime == <<"r", "e", "c", "e", "i", "v", "e", "d", "D", "a", "t", "e", "T", "i", "m", "e">>
k_body == <<"b", "o", "d", "y">>
k_hasAttachments == <<"h", "a", "s", "A", "t", "t", "a", "c", "h", "m", "e", "n", "t", "s">>
k_importance == <<"i", "m", "p", "o", "r", "t", "a", "n", "c", "e">>
k_toRecipients == <<"t", "o", "R", "e", "c", "i", "p", "i", "e", "n", "t", "s">>

Tag(w) == Cat(<<Chr({"<"}), WordI(w), Chr({">"})>>)
Entity(w) == Word(<<"&">> \o w \o <<";">>)

RECURSIVE replaceEach(_, _, _)
\* The first n replacements of htmlToText, applied in order.
replaceEach(str, steps, n) ==
  IF n = 0 THEN str
  ELSE replaceAll(replaceEach(str, steps, n - 1), steps[n][1], steps[n][2])

htmlSteps ==
  << <<Cat(<<Chr({"<"}), WordI(<<"b", "r">>), Star(Sp), Opt(Chr({"/"})), Chr({">"})>>),
       <<"\n">>>>,
     <<Tag(<<"/", "p">>), <<"\n", "\n">>>>,
     <<Tag(<<"/", "d", "i", "v">>), <<"\n">>>>,
     <<Tag(<<"/", "l", "i">>), <<"\n">>>>,
     <<Cat(<<Chr({"<"}), WordI(<<"l", "i">>), Star(NotChr({">"})), Chr({">"})>>),
       <<"-", " ">>>>,
     <<Tag(<<"/", "t", "r">>), <<"\n">>>>,
     <<Tag(<<"/", "t", "d">>), <<"\t">>>>,
     <<Cat(<<Chr({"<"}), Plus(NotChr({">"})), Chr({">"})>>), <<>>>>,
     <<Entity(<<"a", "m", "p">>), <<"&">>>>,
     <<Entity(<<"l", "t">>), <<"<">>>>,
     <<Entity(<<"g", "t">>), <<">">>>>,
     <<Entity(<<"q", "u", "o", "t">>), <<"\"">>>>,
     <<Entity(<<"#", "3", "9">>), <<"'">>>>,
     <<Entity(<<"n", "b", "s", "p">>), <<" ">>>>,
     <<Plus(Chr({" ", "\t"})), <<" ">>>>,
     <<Cat(<<Chr({"\n"}), Chr({"\n"}), Plus(Chr({"\n"}))>>), <<"\n", "\n">>>> >>

\* A variant that decodes &nbsp; after the runs of blanks are collapsed.
htmlToText_nbspLast(html) ==
  trim(replaceEach(html,
                   SubSeq(htmlSteps, 1, 13)
                     \o <<htmlSteps[15], htmlSteps[14], htmlSteps[16]>>,
                   Len(htmlSteps)))

htmlToText(html) == trim(replaceEach(html, htmlSteps, Len(htmlSteps)))

\* The cap on the body of a message.
MAX_BODY == 5000

\* let bodyText = msg.bodyPreview || ""; if (msg.body?.content) ...
bodyText(msg) ==
  IF msg.body # None /\ msg.body[1].content # <<>>
    THEN (IF msg.body[1].contentType = "html"
            THEN htmlToText(msg.body[1].content)
            ELSE msg.body[1].content)
    ELSE msg.bodyPreview

emailRecord(msg) ==
  Obj(<< <<k_id, Str(msg.id)>>,
         <<k_subject, Str(msg.subject)>>,
         <<k_fromName, Str(IF msg.from # None THEN msg.from[1].name ELSE <<>>)>>,
         <<k_fromEmail, Str(IF msg.from # None THEN msg.from[1].address ELSE <<>>)>>,
         <<k_receivedDateTime, Str(msg.receivedDateTime)>>,
         <<k_body, Str(substring(bodyText(msg), MAX_BODY))>>,
         <<k_hasAttachments, Bool(msg.hasAttachments)>>,
         <<k_importance, Str(msg.importance)>>,
         <<k_toRecipients,
           IF msg.toRecipients # None
             THEN Str(Join(msg.toRecipients[1], <<",", " ">>))
             ELSE Undefined>> >>)

emailRecords(messages) == [m \in 1..Len(messages) |-> emailRecord(messages[m])]

(***************************************************************************)
(* extract_dataverse                                                       *)
(***************************************************************************)
isAnnotation(key) ==
  \/ startsWith(key, <<"@", "o", "d", "a", "t", "a", ".">>)
  \/ startsWith(key, <<"@", "M", "i", "c", "r", "o", "s", "o", "f", "t", ".">>)
  \/ startsWith(key, <<"_">>) /\ endsWith(key, <<"_", "v", "a", "l", "u", "e">>)

stripODataAnnotations(record) ==
  Obj(SelectSeq(record.v, LAMBDA e : ~isAnnotation(e[1])))

maxPages == 5
MAX_TOP == 500
DEFAULT_TOP == 50

\* A variant without the ceiling of 500.
maxTop_noCeiling(top) ==
  IF top # None /\ top[1] # 0 THEN top[1] ELSE DEFAULT_TOP

\* Math.min(top || 50, 500)
maxTop(top) ==
  IF top # None /\ top[1] # 0
    THEN (IF top[1] < MAX_TOP THEN top[1] ELSE MAX_TOP)
    ELSE DEFAULT_TOP

\* Array.prototype.slice(0, end)
slice(items, end) ==
  IF end < 0 THEN SubSeq(items, 1, IF Len(items) + end > 0 THEN Len(items) + end ELSE 0)
  ELSE SubSeq(items, 1, IF end < Len(items) THEN end ELSE Len(items))

\* The condition of the pagination loop.
morePages(link, records, pages, top) ==
  Truthy(link) /\ Len(records) < maxTop(top) /\ pages < maxPages

\* Trim to requested max
trimmed(records, top) ==
  IF Len(records) > maxTop(top) THEN slice(records, maxTop(top)) ELSE records

dataverseWarnings(link, records, top) ==
  IF Truthy(link) /\ Len(records) >= maxTop(top)
    THEN << <<"More records available in Dataverse.", Len(records)>> >>
    ELSE <<>>

(***************************************************************************)
(* The token cache of authProvider                                         *)
(***************************************************************************)
CacheKeys == {"graph", "dataverse"}

\* The five-minute buffer, in milliseconds.
BUFFER == 5 * 60 * 1000

\* The lifetime, in seconds, the token endpoint grants.
EXPIRES_IN == 3600

NoTokens == [key \in CacheKeys |-> None]

\* A variant that still serves the token at the instant the buffer begins.
cachedValid_atBuffer(cache, key, now) ==
  cache[key] # None /\ cache[key][1].expiresAt >= now + BUFFER

\* cached && cached.expiresAt > now + 5 * 60 * 1000
cachedValid(cache, key, now) ==
  cache[key] # None /\ cache[key][1].expiresAt > now + BUFFER

\* The clock does not run backwards: a cached token was issued by `now`.
issuedBy(cache, key, now) ==
  cache[key] # None => cache[key][1].expiresAt - EXPIRES_IN * 1000 <= now

\* A variant that clears the token of the mail API only.
clearCache_graphOnly(cache) == [cache EXCEPT !["graph"] = None]

\* A variant that leaves the cache as it is.
clearCache_keeps(cache) == cache

\* clearCache(): this.tokenCache.clear()
clearCache(cache) == NoTokens

\* A variant that keeps the entry that expires later.
set_keepsNewer(cache, key, token) ==
  IF cache[key] # None /\ cache[key][1].expiresAt > token.expiresAt THEN cache
  ELSE [cache EXCEPT ![key] = Some(token)]

\* this.tokenCache.set(cacheKey, token)
set(cache, key, token) == [cache EXCEPT ![key] = Some(token)]

\* A variant that drops the entry of the key when the acquisition fails.
failedToken_evicts(cache, key) == [cache EXCEPT ![key] = None]

\* getToken throws before this.tokenCache.set(cacheKey, token)
failedToken(cache, key) == cache

CachedToken(accessToken, now, expiresIn) ==
  [accessToken |-> accessToken, expiresAt |-> now + expiresIn * 1000]


(***************************************************************************)
(* The engagement store (data/store.ts) and the tools that write to it.    *)
(* A Map is the sequence of its <<key, value>> entries in insertion order; *)
(* a checklist is the array of its items.  Of every record only the fields *)
(* the handlers read or write again are kept.                              *)
(***************************************************************************)
\* Map.prototype.has, get and set
mapHas(map, key) == \E i \in 1..Len(map) : map[i][1] = key
mapGet(map, key) ==
  IF mapHas(map, key)
    THEN Some(map[CHOOSE i \in 1..Len(map) : map[i][1] = key][2])
    ELSE None
mapSet(map, key, value) ==
  IF mapHas(map, key)
    THEN [i \in 1..Len(map) |->
            IF map[i][1] = key THEN <<key, value>> ELSE map[i]] \o <<>>
    ELSE Append(map, <<key, value>>)

\* str.padStart(targetLength, padString) for a one-character padString
padStart(str, targetLength, padString) ==
  IF Len(str) >= targetLength THEN str
  ELSE [i \in 1..(targetLength - Len(str)) |-> padString] \o str

cust == <<"c", "u", "s", "t", "-">>
envPrefix == <<"e", "n", "v", "-">>
chk == <<"c", "h", "k", "-">>

\* `${prefix}${String(size).padStart(3, "0")}`: the id of the size-th entry
idOf(prefix, size) == prefix \o padStart(NumText(size), 3, "0")

\* The id an add builds from the size of its collection, off by one
generatedId_fromSize(prefix, size) == idOf(prefix, size)

\* `${prefix}${String(size + 1).padStart(3, "0")}`
generatedId(prefix, size) == idOf(prefix, size + 1)

Customer(id, name, status) == [id |-> id, name |-> name, status |-> status]
Environment(id, customerId, name) ==
  [id |-> id, customerId |-> customerId, name |-> name]
ChecklistItem(id, title, status) == [id |-> id, title |-> title, status |-> status]

\* FastTrackStore.seed()
sampleCustomers ==
  << <<idOf(cust, 1), Customer(idOf(cust, 1), "Contoso Manufacturing", "Active")>>,
     <<idOf(cust, 2), Customer(idOf(cust, 2), "Northwind Traders", "Onboarding")>>,
     <<idOf(cust, 3), Customer(idOf(cust, 3), "Adventure Works", "Go-Live")>> >>
sampleEnvironments ==
  [i \in 1..3 |->
     <<idOf(envPrefix, i),
       Environment(idOf(envPrefix, i), idOf(cust, 1),
                   <<"Contoso-Sandbox-T1", "Contoso-UAT", "Contoso-Prod">>[i])>>] \o <<>>
contosoChecklist ==
  [i \in 1..8 |->
     ChecklistItem(idOf(chk, i), i,
                   IF i <= 2 THEN "Completed"
                   ELSE IF i = 3 THEN "In Progress" ELSE "Not Started")] \o <<>>
SeedStore ==
  [customers |-> sampleCustomers,
   environments |-> sampleEnvironments,
   checklists |-> << <<idOf(cust, 1), contosoChecklist>> >>]

Content(text, id) == [text |-> text, id |-> id]

\* add_customer: the store after the call and the text returned
add_customer(st, name) ==
  LET id == generatedId(cust, Len(st.customers))
  IN  [store |-> [st EXCEPT !.customers =
                     mapSet(@, id, Customer(id, name, "Onboarding"))],
       content |-> Content("Customer added successfully.", id)]

\* update_customer_status
update_customer_status(st, customerId, status) ==
  LET customer == mapGet(st.customers, customerId)
  IN  IF customer = None
        THEN [store |-> st, content |-> Content("Customer not found", customerId)]
        ELSE [store |-> [st EXCEPT !.customers =
                           mapSet(@, customerId,
                                  [customer[1] EXCEPT !.status = status])],
              content |-> Content("status updated", customerId)]

\* add_environment
add_environment(st, customerId, name) ==
  LET customer == mapGet(st.customers, customerId)
      id == generatedId(envPrefix, Len(st.environments))
  IN  IF customer = None
        THEN [store |-> st, content |-> Content("Customer not found", customerId)]
        ELSE [store |-> [st EXCEPT !.environments =
                           mapSet(@, id, Environment(id, customerId, name))],
              content |-> Content("Environment added", id)]

\* add_checklist_item
add_checklist_item(st, customerId, title) ==
  LET customer == mapGet(st.customers, customerId)
      found == mapGet(st.checklists, customerId)
      checklist == IF found = None THEN <<>> ELSE found[1]
      id == generatedId(chk, Len(checklist))
      item == ChecklistItem(id, title, "Not Started")
  IN  IF customer = None
        THEN [store |-> st, content |-> Content("Customer not found", customerId)]
        ELSE [store |-> [st EXCEPT !.checklists =
                           mapSet(@, customerId, Append(checklist, item))],
              content |-> Content("Checklist item added", id)]

\* update_checklist_item: checklist.find takes the first item of that id
update_checklist_item(st, customerId, itemId, status) ==
  LET found == mapGet(st.checklists, customerId)
      checklist == found[1]
      at == {i \in 1..Len(checklist) : checklist[i].id = itemId}
      first == CHOOSE i \in at : \A j \in at : i <= j
  IN  IF found = None
        THEN [store |-> st, content |-> Content("No checklist found", customerId)]
        ELSE IF at = {}
          THEN [store |-> st, content |-> Content("Checklist item not found", itemId)]
          ELSE [store |-> [st EXCEPT !.checklists =
                             mapSet(@, customerId,
                                    [checklist EXCEPT ![first].status = status])],
                content |-> Content("Checklist item updated", itemId)]

(***************************************************************************)
(* The session table of the HTTP entry point (http.ts).  `sessions` is a   *)
(* plain object: the set of its own keys, each holding the transport that  *)
(* was initialized with that session id.  Reading sessions[key] follows    *)
(* the prototype chain, so a key that names a property of Object.prototype *)
(* reads as a value that is truthy and is no transport.                    *)
(***************************************************************************)
NoSessions == {}

\* Some of the property names of Object.prototype
ObjectPrototype ==
  {<<"c", "o", "n", "s", "t", "r", "u", "c", "t", "o", "r">>,
   <<"_", "_", "p", "r", "o", "t", "o", "_", "_">>}

\* sessions[sessionId]
property(table, sessionId) ==
  IF sessionId \in table THEN [k |-> "transport", of |-> sessionId]
  ELSE IF sessionId \in ObjectPrototype THEN [k |-> "inherited", of |-> sessionId]
  ELSE [k |-> "undefined", of |-> sessionId]

\* the truth value of req.headers["mcp-session-id"]: a non-empty string
HasSessionId(req) == req.sessionId # None /\ req.sessionId[1] # <<>>

\* the truth value of sessions[sessionId]
HasSession(table, req) == property(table, req.sessionId[1]).k # "undefined"

\* transport.onclose: delete sessions[sid]
onclose(table, sid) == IF sid \in table THEN table \ {sid} ELSE table

\* onsessioninitialized: sessions[sid] = transport
onsessioninitialized(table, sid) == table \cup {sid}

\* What became of a request: handed to the transport of a session (None for
\* a transport that holds no session), answered with a status by the entry
\* point, or left without an answer.
Handled(sid) == [by |-> "transport", status |-> 0, session |-> sid]
Answered(status) == [by |-> "entry point", status |-> status, session |-> None]
Unanswered == [by |-> "nobody", status |-> 0, session |-> None]

(***************************************************************************)
(* The server as a state machine: one tool invocation at a time, from the  *)
(* call to the returned text, with the answers of the file system, of the  *)
(* pdf parser and of the remote services as inputs.                        *)
(***************************************************************************)
MaxRecords == 4
MaxRows == 2

Formats == {"json", "markdown", "summary", "key-value", "csv"}

\* targetTool is the name of the tool that will consume the output: a name
\* of either table, a tool of neither table, or the empty string.
ToolNames ==
  DOMAIN TARGET_TOOL_FORMAT_MAP \cup DOMAIN TARGET_TOOL_FIELDS
    \cup {"extract_json", ""}

Text(n, c) == [i \in 1..n |-> c] \o <<>>

RecAcme ==
  Obj(<< <<<<"N", "a", "m", "e">>, Str(<<"A", "c", "m", "e">>)>>,
         <<k_industry, Str(<<"R", "e", "t", "a", "i", "l">>)>> >>)
RecCompany ==
  Obj(<< <<<<"c", "o", "m", "p", "a", "n", "y", "N", "a", "m", "e">>,
           Str(<<"A", ",", "B">>)>>,
         <<k_name, Str(<<"s", "a", "y", " ", "\"", "h", "i", "\"">>)>>,
         <<<<"I", "d">>, Num(7)>> >>)
RecEmptyKey ==
  Obj(<< <<<<>>, Str(<<"l", "1", "\n", "l", "2">>)>>,
         <<<<"t", "a", "g", "s">>, Arr(<<Num(1), Num(12)>>)>>,
         <<k_notes, Null>>,
         <<<<"o", "k">>, Bool(TRUE)>> >>)
RecDepth2 ==
  Obj(<< <<<<"a">>, Num(1)>>,
         <<<<"b">>, Obj(<< <<<<"c">>, Num(2)>> >>)>> >>)
RecDepth3 ==
  Obj(<< <<<<"a">>, Obj(<< <<<<"b">>, Obj(<< <<<<"c">>, Num(1)>> >>)>> >>)>> >>)
RecDepth4 ==
  Obj(<< <<<<"a">>,
           Obj(<< <<<<"b">>,
                    Obj(<< <<<<"c">>, Obj(<< <<<<"d">>, Num(1)>> >>)>> >>)>> >>)>> >>)
RecText200 == Obj(<< <<k_description, Str(Text(200, "x"))>> >>)
RecText201 == Obj(<< <<k_description, Str(Text(201, "x"))>> >>)
RecCommaKey == Obj(<< <<<<"a", ",", "b">>, Num(1)>>, <<<<"c">>, Null>> >>)
RecEmpty == Obj(<<>>)

Pool ==
  {RecAcme, RecCompany, RecEmptyKey, RecDepth2, RecDepth3, RecDepth4,
   RecText200, RecText201, RecEmpty, RecCommaKey}

\* The record lists: none, or a first record followed by copies of a second.
RecordLists ==
  {<<>>} \cup {<<first>> \o [i \in 1..n |-> rest] :
                 first \in Pool, rest \in Pool, n \in 0..(MaxRecords - 1)}

\* Sample inputs of extract_json.
k_data == <<"d", "a", "t", "a">>
k_customers == <<"c", "u", "s", "t", "o", "m", "e", "r", "s">>
k_0 == <<"0">>
DocList == Arr(<<RecAcme, Num(7), Null, RecDepth2>>)
DocNested ==
  Obj(<< <<k_0, Bool(TRUE)>>,
         <<k_data, Obj(<< <<k_customers, Arr(<<RecAcme, RecCompany>>)>> >>)>> >>)
DocNumbers(n) == Arr([i \in 1..n |-> Num(i)] \o <<>>)

JsonPaths ==
  {None, Some(<<"d", "a", "t", "a", ".", "c", "u", "s", "t", "o", "m", "e", "r", "s">>),
   Some(<<"d", "a", "t", "a", ".", "c", "u", "s", "t", "o", "m", "e", "r", "s", "[", "*", "]", ".", "n", "a", "m", "e">>),
   Some(<<"d", "a", "t", "a", ".", "m", "i", "s", "s", "i", "n", "g">>)}

FieldLists == {None, Some(<<"n", "a", "m", "e", ",", " ", "I", "d", " ", ",", "0">>)}

\* Sample files of extract_code: the lines of each.
FileTs ==
  << <<"i", "m", "p", "o", "r", "t", " ", "{", " ", "z", " ", "}", " ", "f", "r", "o", "m", " ", "\"", "z", "o", "d", "\"", ";">>,
     <<"/", "*", "*", " ", "d", "o", "c">>,
     <<"e", "n", "d", " ", "*", "/", " ", "x">>,
     <<"e", "x", "p", "o", "r", "t", " ", "c", "l", "a", "s", "s", " ", "S", "t", "o", "r", "e", " ", "{">>,
     <<" ", " ", "p", "r", "i", "v", "a", "t", "e", " ", "l", "o", "a", "d", "(", "i", "d", ")", " ", "{">>,
     <<"e", "x", "p", "o", "r", "t", " ", "a", "s", "y", "n", "c", " ", "f", "u", "n", "c", "t", "i", "o", "n", " ", "r", "u", "n", "(", ")", " ", "{">>,
     <<"/", "/", "/", " ", "n", "o", "t", "e">>,
     <<"c", "o", "n", "s", "t", " ", "f", " ", "=", " ", "(", "a", ")", " ", "=", ">", " ", "a", ";">>,
     <<"/", "*", "*", " ", "o", "n", "e", " ", "*", "/">>,
     <<>> >>

FilePy ==
  << <<"f", "r", "o", "m", " ", "o", "s", " ", "i", "m", "p", "o", "r", "t", " ", "p", "a", "t", "h">>,
     <<"c", "l", "a", "s", "s", " ", "S", "t", "o", "r", "e", ":">>,
     <<"a", "s", "y", "n", "c", " ", "d", "e", "f", " ", "r", "u", "n", "(", "s", "e", "l", "f", ")", ":">>,
     <<"i", "m", "p", "o", "r", "t", " ", "s", "y", "s">> >>

FileCs ==
  << <<"u", "s", "i", "n", "g", " ", "S", "y", "s", "t", "e", "m", ";">>,
     <<"p", "u", "b", "l", "i", "c", " ", "p", "a", "r", "t", "i", "a", "l", " ", "c", "l", "a", "s", "s", " ", "S", "t", "o", "r", "e">>,
     <<" ", " ", "p", "u", "b", "l", "i", "c", " ", "s", "t", "a", "t", "i", "c", " ", "a", "s", "y", "n", "c", " ", "T", "a", "s", "k", "<", "i", "n", "t", ">", " ", "R", "u", "n", " ", "(", "i", "n", "t", " ", "a", ")">>,
     <<"/", "/", "/", " ", "<", "s", "u", "m", "m", "a", "r", "y", ">">>,
     <<"i", "n", "t", "e", "r", "n", "a", "l", " ", "e", "n", "u", "m", " ", "K", "i", "n", "d">> >>

FileEmpty == << <<>> >>

FileLong(n) == [i \in 1..n |-> <<"x">>] \o <<>>

Extensions == {<<".", "t", "s">>, <<".", "P", "Y">>, <<".", "c", "s">>, <<".", "t", "x", "t">>}

\* Sample answers of the pdf parser.
PdfPages ==
  {<<>>,
   <<[num |-> 1, text |-> <<" ", "p", "a", "g", "e", " ", "o", "n", "e", "\n">>]>>,
   <<[num |-> 2, text |-> Text(MAX_PAGE_TEXT + 1, "x")], [num |-> 3, text |-> <<>>]>>}

PdfTable == Arr(<<Arr(<<Str(<<"h", "1">>), Str(<<"h", "2">>)>>), Arr(<<Str(<<"a">>), Str(<<"b">>)>>)>>)
PdfTables ==
  {<<>>,
   <<[num |-> 1, tables |-> <<PdfTable, Arr(<<>>)>>], [num |-> 2, tables |-> <<>>]>>}

\* Sample answers of the mail API.
MsgHtml ==
  [id |-> <<"m", "1">>, subject |-> <<"G", "o", "-", "l", "i", "v", "e">>,
   from |-> Some([name |-> <<"A", "n", "n">>, address |-> <<"a", "n", "n", "@", "x", ".", "i", "o">>]),
   receivedDateTime |-> <<"2", "0", "2", "4", "-", "0", "1", "-", "0", "1">>,
   bodyPreview |-> <<"H", "i">>,
   body |-> Some([contentType |-> "html",
                  content |-> <<"<", "p", ">", "H", "i", " ", "&", "a", "m", "p", ";", " ", "<", "b", ">", "b", "y", "e", "<", "/", "b", ">", "<", "/", "p", ">", "<", "B", "R", "/", ">", "a", " ", " ", "b">>]),
   hasAttachments |-> FALSE, importance |-> <<"h", "i", "g", "h">>,
   toRecipients |-> Some(<<<<"b", "@", "x", ".", "i", "o">>, <<"c", "@", "x", ".", "i", "o">>>>)]
MsgPreview ==
  [id |-> <<"m", "2">>, subject |-> <<"R", "e">>, from |-> None,
   receivedDateTime |-> <<"2", "0", "2", "4", "-", "0", "1", "-", "0", "2">>,
   bodyPreview |-> <<"s", "e", "e", " ", "y", "o", "u">>,
   body |-> Some([contentType |-> "text", content |-> <<>>]),
   hasAttachments |-> TRUE, importance |-> <<"l", "o", "w">>,
   toRecipients |-> None]

MessageLists ==
  {None, Some(<<MsgHtml>>)}
    \cup {Some([i \in 1..n |-> MsgPreview]) : n \in 0..MaxRows}
    \cup {Some(<<MsgHtml>> \o [i \in 1..n |-> MsgPreview]) : n \in 1..MaxRows}

\* Sample answers of the tabular API: a page of n rows.
Row(n) ==
  Obj(<< <<<<"@", "o", "d", "a", "t", "a", ".", "e", "t", "a", "g">>, Str(<<"W", "/", "1">>)>>,
         <<<<"a", "c", "c", "o", "u", "n", "t", "i", "d">>, Num(n)>>,
         <<<<"_", "o", "w", "n", "e", "r", "i", "d", "_", "v", "a", "l", "u", "e">>, Str(<<"u", "1">>)>>,
         <<<<"n", "a", "m", "e">>, Str(<<"C", "o", "n", "t", "o", "s", "o", ",", " ", "L", "t", "d">>)>> >>)
Page(n) == [i \in 1..n |-> Row(i)] \o <<>>

WarningLists == {<<>>, << <<"Results truncated to 500 records.">> >>}

\* A variant that counts one record more when the result carries a warning.
NewResult_countCut(src, records, warnings) ==
  [metadata |-> [source |-> src,
                 extractedAt |-> "2024-01-01T00:00:00.000Z",
                 outputFormat |-> "json",
                 recordCount |-> Len(records) + Len(warnings),
                 warnings |-> warnings,
                 targetTool |-> None],
   records |-> records]

\* The ExtractionResult a tool builds before it calls format().
NewResult(src, records, warnings) ==
  [metadata |-> [source |-> src,
                 extractedAt |-> "2024-01-01T00:00:00.000Z",
                 outputFormat |-> "json",
                 recordCount |-> Len(records),
                 warnings |-> warnings,
                 targetTool |-> None],
   records |-> records]

NoResult == NewResult("none", <<>>, <<>>)
NoOutput == [kind |-> "none", doc |-> <<>>, lines |-> <<>>]
\* A response that is a message instead of a rendering.
Message(parts) == [kind |-> "message", doc |-> <<>>, lines |-> <<parts>>]

\* A variant that lets the error leave the handler.
caught_rethrown(message) == [kind |-> "thrown", doc |-> <<>>, lines |-> <<message>>]

\* catch (error) { ... return { content: [{ type: "text", text:
\* `Extraction failed: ${message}` }] } }
caught(message) == Message(<<"Extraction failed", message>>)

\* process.env: which variables are set.
EnvAll ==
  [GRAPH_TENANT_ID |-> TRUE, GRAPH_CLIENT_ID |-> TRUE, GRAPH_CLIENT_SECRET |-> TRUE,
   DATAVERSE_TENANT_ID |-> FALSE, DATAVERSE_CLIENT_ID |-> TRUE,
   DATAVERSE_CLIENT_SECRET |-> TRUE, DATAVERSE_ENVIRONMENT_URL |-> TRUE]
EnvNone == [name \in DOMAIN EnvAll |-> FALSE]
Envs == {EnvAll, EnvNone}

\* getGraphConfig() and getDataverseConfig() return a configuration
getGraphConfig(e) ==
  e.GRAPH_TENANT_ID /\ e.GRAPH_CLIENT_ID /\ e.GRAPH_CLIENT_SECRET

getDataverseConfig(e) ==
  /\ e.DATAVERSE_TENANT_ID \/ e.GRAPH_TENANT_ID
  /\ e.DATAVERSE_CLIENT_ID
  /\ e.DATAVERSE_CLIENT_SECRET
  /\ e.DATAVERSE_ENVIRONMENT_URL

\* The format parameters the tools share.
explicitFormat == call.outputFormat
targetTool == call.targetTool

NoCall == [tool |-> "none", outputFormat |-> None, targetTool |-> None]

FormatCalls ==
  {[tool |-> "format", outputFormat |-> explicit, targetTool |-> target] :
     explicit \in {None} \cup {Some(f) : f \in Formats},
     target \in {None} \cup {Some(t) : t \in ToolNames}}

\* The format parameters tried with the extraction tools.
Renderings ==
  {<<None, None>>, <<Some("csv"), None>>, <<None, Some("add_customer")>>}

JsonCall(file, source, path, fields, flat, r) ==
  [tool |-> "extract_json", file |-> file, source |-> source,
   jsonPath |-> path, selectFields |-> fields, flatten |-> flat,
   outputFormat |-> r[1], targetTool |-> r[2]]

\* Inline documents under every path and selection; the same document under
\* every rendering; files of about MAX_JSON_RECORDS numbers.
JsonCalls ==
  {JsonCall(FALSE, source, path, fields, flat, <<None, None>>) :
     source \in {None, Some(DocList), Some(DocNested)},
     path \in JsonPaths, fields \in FieldLists, flat \in BOOLEAN}
    \cup {JsonCall(FALSE, Some(DocNested), path, None, FALSE, r) :
            path \in JsonPaths, r \in Renderings}
    \cup {JsonCall(TRUE, Some(DocNumbers(n)), None, None, FALSE, <<None, None>>) :
            n \in {MAX_JSON_RECORDS - 1, MAX_JSON_RECORDS, MAX_JSON_RECORDS + MaxRows}}

CodeCall(ext, mode, language, r) ==
  [tool |-> "extract_code", ext |-> ext, extractionMode |-> mode,
   language |-> language, outputFormat |-> r[1], targetTool |-> r[2]]

CodeModes ==
  {None} \cup {Some(m) : m \in {"full", "structure", "imports", "exports", "comments"}}

\* Every mode with the language of the extension, and with a language given
\* for a file whose extension names none.
CodeCalls ==
  {CodeCall(ext, mode, None, <<None, None>>) : ext \in Extensions, mode \in CodeModes}
    \cup {CodeCall(<<".", "t", "x", "t">>, mode, Some(language), <<None, None>>) :
            mode \in CodeModes, language \in {"javascript", "xpp", "java"}}
    \cup {CodeCall(<<".", "t", "s">>, None, None, r) : r \in Renderings}

\* The files read: the short ones in every mode, the long ones in full mode.
CodeFiles(mode) ==
  {FileTs, FilePy, FileCs, FileEmpty}
    \cup (IF mode = "full"
            THEN {FileLong(n) : n \in {MAX_FULL_LINES, MAX_FULL_LINES + MaxRows}}
            ELSE {})

PdfCalls ==
  {[tool |-> "extract_pdf", extractTables |-> tables,
    outputFormat |-> r[1], targetTool |-> r[2]] :
     tables \in BOOLEAN, r \in Renderings}

\* The clock readings of the calls: the last one is past the validity, less
\* the buffer, of a token issued at the first, the one before is just within.
Times == {0, 3299999, 3300000}
Tops == {None, Some(0), Some(1), Some(MaxRows + 1), Some(600), Some(-1)}

EmailCalls ==
  {[tool |-> "extract_email", key |-> "graph", accessToken |-> token, now |-> now,
    outputFormat |-> None, targetTool |-> None] :
     token \in {"", "caller"}, now \in Times}

DataverseCall(token, now, top, url) ==
  [tool |-> "extract_dataverse", key |-> "dataverse", accessToken |-> token,
   now |-> now, top |-> top, environmentUrl |-> url,
   outputFormat |-> None, targetTool |-> None]

\* Every top with the caller's token; the default top with a token of the
\* server and with the environment URL of the server.
DataverseCalls ==
  {DataverseCall("caller", 0, top, "https://org.crm.dynamics.com") : top \in Tops}
    \cup {DataverseCall(token, now, None, url) :
            token \in {"", "caller"}, now \in {0, 3300000},
            url \in {"", "https://org.crm.dynamics.com"}}

\* The results handed to format(): with warnings only for the short lists.
Results ==
  {NewResult("json", records, <<>>) : records \in RecordLists}
    \cup {NewResult("json", records, warnings) :
            records \in {list \in RecordLists : Len(list) <= 1},
            warnings \in WarningLists}

Init ==
  /\ store = SeedStore
  /\ sessions = NoSessions
  /\ pc = "built"
  /\ env = EnvAll
  /\ tokenCache = NoTokens
  /\ call \in FormatCalls
  /\ result \in Results
  /\ extracted = result.records
  /\ nextLink = None
  /\ pageCount = 0
  /\ mappedFields = None
  /\ output = NoOutput

\* OutputFormatter.format(result, outputFormat, targetTool), and the return of
\* the handler; extract_pdf then awaits parser.destroy(), which may throw.
Format ==
  /\ pc = "built"
  /\ pc' = "returned"
  /\ result' = formatted(result, call.outputFormat, call.targetTool)
  /\ mappedFields' = mappedFieldsOf(result, call.targetTool)
  /\ \E destroyed \in (IF call.tool = "extract_pdf" THEN BOOLEAN ELSE {TRUE}) :
       output' = IF destroyed
                   THEN format(result, call.outputFormat, call.targetTool)
                   ELSE caught("destroy")
  /\ UNCHANGED <<store, sessions, env, tokenCache, call, extracted, nextLink, pageCount>>

Next == Format

Spec == Init /\ [][Next]_vars


(***************************************************************************)
(* The utilities on their own: resolveJsonPath, flattenObject, htmlToText  *)
(***************************************************************************)
k_items == <<"i", "t", "e", "m", "s">>
k_grid == <<"g", "r", "i", "d">>
k_x == <<"x">>

\* Sample values: sequences of objects, some lacking the field, nested
\* sequences, a root sequence, objects nested in objects.
DocItems ==
  Obj(<< <<k_items, Arr(<<Obj(<< <<k_id, Num(1)>> >>), Obj(<< <<k_id, Num(2)>> >>)>>)>> >>)
DocMixed ==
  Obj(<< <<k_items,
           Arr(<<Obj(<< <<k_id, Num(1)>> >>),
                 Obj(<< <<k_x, Obj(<< <<k_id, Num(2)>> >>)>> >>),
                 Null,
                 Num(7),
                 Obj(<< <<k_id, Null>>, <<k_x, Arr(<<Num(3), Num(4)>>)>> >>),
                 Arr(<<Obj(<< <<k_id, Num(5)>> >>)>>)>>)>>,
         <<k_grid,
           Arr(<<Arr(<<Obj(<< <<k_id, Num(11)>> >>), Obj(<< <<k_id, Num(12)>> >>)>>),
                 Arr(<<>>),
                 Arr(<<Obj(<< <<k_x, Num(13)>> >>)>>)>>)>> >>)
DocRoot ==
  Arr(<<Obj(<< <<k_id, Num(1)>> >>), Obj(<< <<k_id, Num(2)>>, <<k_x, Num(0)>> >>),
        Arr(<<Num(8), Num(9)>>)>>)
PathDocs == {DocItems, DocMixed, DocRoot, DocNested}

\* The names that lead to the value a wildcard or an index is applied to.
PathPrefixes ==
  {<<>>, <<k_items>>, <<k_grid>>, <<k_grid, <<"0">>>>, <<k_data, k_customers>>,
   <<<<"2">>>>}

\* The paths that follow a wildcard: none, names, an index, a wildcard.
PathRests ==
  {<<>>, k_id, <<"x", ".", "i", "d">>, <<"0">>, <<"x", "[", "0", "]">>, <<"*">>, <<"*", ".", "i", "d">>, k_name}

\* The wildcard in bracket and in dot notation.
Stars == {"bracket", "dot"}

\* The text of the names, and of a wildcard after them.
Dotted(names) == Join(names, <<".">>)

StarPath(names, star) ==
  IF names = <<>> THEN (IF star = "bracket" THEN <<"[", "*", "]">> ELSE <<"*">>)
  ELSE Dotted(names) \o (IF star = "bracket" THEN <<"[", "*", "]">> ELSE <<".", "*">>)

WildPath(names, star, rest) ==
  StarPath(names, star) \o (IF rest = <<>> THEN <<>> ELSE <<".">> \o rest)

\* An index in bracket and in dot notation.
Indexes == {<<"0">>, <<"1">>, <<"0", "1">>, <<"7">>}

IndexPath(names, index, bracket, rest) ==
  (IF names = <<>> THEN (IF bracket THEN <<"[">> \o index \o <<"]">> ELSE index)
   ELSE Dotted(names)
          \o (IF bracket THEN <<"[">> \o index \o <<"]">> ELSE <<".">> \o index))
    \o (IF rest = <<>> THEN <<>> ELSE <<".">> \o rest)

PathCalls ==
  {[tool |-> "resolveJsonPath", obj |-> obj, path |-> path] :
     obj \in PathDocs,
     path \in {WildPath(names, star, rest) :
                 names \in PathPrefixes, star \in Stars, rest \in PathRests}
              \cup {IndexPath(names, index, bracket, rest) :
                      names \in PathPrefixes, index \in Indexes,
                      bracket \in BOOLEAN, rest \in {<<>>, k_id}}}

\* Objects to flatten: nested to three levels, with sequences, null and
\* empty objects as values, with index-like, empty and dotted names.
FlatEmptyName ==
  Obj(<< <<<<>>, Obj(<< <<<<"b">>, Num(1)>> >>)>> >>)
FlatInnerEmptyName ==
  Obj(<< <<<<"a">>, Obj(<< <<<<>>, Num(1)>>, <<<<"0">>, Null>> >>)>>, <<<<>>, Num(3)>> >>)
FlatEmptyObject ==
  Obj(<< <<<<"a">>, Obj(<<>>)>>, <<<<"c">>, Arr(<<>>)>> >>)
FlatDotted ==
  Obj(<< <<<<"a", ".", "b">>, Num(1)>>, <<<<"a">>, Obj(<< <<<<"b">>, Num(2)>> >>)>> >>)
FlatBracket ==
  Obj(<< <<<<"a">>, Obj(<< <<<<"[", "0", "]">>, Num(1)>> >>)>> >>)
FlatDocs ==
  {DocItems, DocMixed, DocNested, RecDepth2, RecDepth3, RecDepth4, RecAcme,
   FlatEmptyName, FlatInnerEmptyName, FlatEmptyObject, FlatDotted, FlatBracket}

FlattenCalls == {[tool |-> "flattenObject", obj |-> obj] : obj \in FlatDocs}

\* Sample markup: lists, tables, runs of blanks and newlines, character
\* references, references that decode to references or to angle brackets.
HtmlList ==
  <<"<", "u", "l", ">", "<", "l", "i", ">", "a", "<", "/", "l", "i", ">", "<", "l", "i", " ", "c", "l", "a", "s", "s", "=", "x", ">", "b", "<", "/", "l", "i", ">", "<", "/", "u", "l", ">">>
HtmlTable ==
  <<"<", "t", "a", "b", "l", "e", ">", "<", "t", "r", ">", "<", "t", "d", ">", "a", "<", "/", "t", "d", ">", "<", "t", "d", ">", "b", "<", "/", "t", "d", ">", "<", "/", "t", "r", ">", "<", "/", "t", "a", "b", "l", "e", ">">>
HtmlSpaces ==
  <<" ", "<", "d", "i", "v", ">", "a", " ", " ", "\t", " ", "b", "<", "/", "d", "i", "v", ">", "\n", "\n", "\n", "\n", "<", "p", ">", "c", "<", "/", "p", ">", "\n", "<", "B", "R", " ", "/", ">", "d", " ">>
HtmlNbsp ==
  <<"a", "&", "n", "b", "s", "p", ";", " ", "b", " ", "&", "q", "u", "o", "t", ";", "c", "&", "q", "u", "o", "t", ";", " ", "&", "#", "3", "9", ";", "d", "&", "#", "3", "9", ";">>
HtmlAmpAmp ==
  <<"&", "a", "m", "p", ";", "a", "m", "p", ";">>
HtmlAmpLt ==
  <<"a", " ", "&", "a", "m", "p", ";", "l", "t", ";", " ", "b">>
HtmlLtGt ==
  <<"1", " ", "&", "l", "t", ";", " ", "2", " ", "&", "g", "t", ";", " ", "1">>
HtmlEscapedTag ==
  <<"&", "l", "t", ";", "b", "&", "g", "t", ";", "x">>
HtmlEmptyAngles ==
  <<"&", "l", "t", ";", "&", "g", "t", ";", " ", "<", "i", ">", "x", "<", "/", "i", ">">>
HtmlPlain ==
  <<"a", " ", ">", " ", "b">>
HtmlTexts ==
  {<<>>, MsgHtml.body[1].content,
   HtmlList, HtmlTable, HtmlSpaces, HtmlNbsp, HtmlAmpAmp,
   HtmlAmpLt, HtmlLtGt, HtmlEscapedTag, HtmlEmptyAngles, HtmlPlain}

HtmlCalls == {[tool |-> "htmlToText", html |-> html] : html \in HtmlTexts}

\* The tokens of a page range: pages, ranges, and tokens that name no page.
PageTokens ==
  {<<"1">>,
   <<"3">>,
   <<"2", "-", "4">>,
   <<"0">>,
   <<"x">>,
   <<"4", "-", "2">>,
   <<"0", "-", "2">>,
   <<"-", "3">>,
   <<"2", "x">>,
   <<" ", "5", " ">>,
   <<"a", "-", "3">>,
   <<"3", "-", "b">>,
   <<"0", "0", "7">>}

\* The longest page range, in tokens.
MaxTokens == 2

RECURSIVE TokenLists(_)
TokenLists(n) ==
  IF n = 0 THEN {<<>>}
  ELSE TokenLists(n - 1)
         \cup {Append(tokens, t) : tokens \in TokenLists(n - 1), t \in PageTokens}

PageRanges ==
  {None, Some(<<"a", "l", "l">>), Some(<<"A", "L", "L">>)}
    \cup {Some(Join(tokens, <<",">>)) : tokens \in TokenLists(MaxTokens)}

PageCalls == {[tool |-> "buildParseParams", pages |-> pages] : pages \in PageRanges}

\* Files with doc comments: a block over three lines, a block closed on its
\* opening line, triple-slash lines inside and outside a block, a block longer
\* than the cap of its text.
FileBlock ==
  << <<"/", "*", "*", " ", "a">>,
     <<" ", "*", " ", "b">>,
     <<" ", "*", "/">>,
     <<"c", "o", "d", "e", "(", ")", ";">>,
     <<"/", "/", "/", " ", "x">> >>
FileOneLine ==
  << <<"/", "*", "*", " ", "o", "n", "e", " ", "*", "/">>,
     <<"c", "o", "d", "e", "(", ")", ";">>,
     <<"/", "*", "*", " ", "t", "w", "o">>,
     <<"*", "/">>,
     <<"t", "a", "i", "l">> >>
FileXmlInside ==
  << <<"/", "/", "/", " ", "a">>,
     <<" ", " ", "/", "/", "/", " ", "b">>,
     <<"/", "*", "*", " ", "c">>,
     <<"/", "/", "/", " ", "i", "n", "s", "i", "d", "e">>,
     <<"e", "n", "d", " ", "*", "/", " ", "x">>,
     <<"/", "*", "*", " ", "d">>,
     <<"*", "/">> >>
FileLongBlock ==
  << <<"/", "*", "*">> \o Text(300, "x"),
     Text(300, "y") \o <<"*", "/">>,
     <<"z">> >>

\* Lines longer than the cap of a signature.
FileWide ==
  << <<"i", "m", "p", "o", "r", "t", " ">> \o Text(250, "x"),
     <<"e", "x", "p", "o", "r", "t", " ", "c", "l", "a", "s", "s", " ">> \o Text(250, "y"),
     <<"/", "/", "/", " ">> \o Text(250, "z") >>

CodeTexts ==
  {FileTs, FilePy, FileCs, FileEmpty, FileBlock, FileOneLine, FileXmlInside,
   FileLongBlock, FileWide}

CodeTextCalls ==
  {[tool |-> "codeRecords", content |-> content, ext |-> ext, language |-> None,
    extractionMode |-> mode] :
     content \in CodeTexts, ext \in Extensions,
     mode \in {"full", "structure", "imports", "exports", "comments"}}

UtilCalls ==
  PathCalls \cup FlattenCalls \cup HtmlCalls \cup PageCalls \cup CodeTextCalls

Value(val) == [kind |-> "value", doc |-> val, lines |-> <<>>]

InitUtils ==
  /\ store = SeedStore
  /\ sessions = NoSessions
  /\ pc = "idle"
  /\ env = EnvNone
  /\ tokenCache = NoTokens
  /\ call \in UtilCalls
  /\ result = NoResult
  /\ extracted = <<>>
  /\ nextLink = None
  /\ pageCount = 0
  /\ mappedFields = None
  /\ output = NoOutput

\* resolveJsonPath(obj, path)
ResolvePath ==
  /\ pc = "idle"
  /\ call.tool = "resolveJsonPath"
  /\ pc' = "returned"
  /\ output' = Value(resolveJsonPath(call.obj, call.path))
  /\ UNCHANGED <<store, sessions, env, tokenCache, call, extracted, nextLink, pageCount, result,
                 mappedFields>>

\* flattenObject(obj)
FlattenObject ==
  /\ pc = "idle"
  /\ call.tool = "flattenObject"
  /\ pc' = "returned"
  /\ output' = Value(flattenObject(call.obj, <<>>))
  /\ UNCHANGED <<store, sessions, env, tokenCache, call, extracted, nextLink, pageCount, result,
                 mappedFields>>

\* htmlToText(html)
HtmlToText ==
  /\ pc = "idle"
  /\ call.tool = "htmlToText"
  /\ pc' = "returned"
  /\ output' = [kind |-> "text", doc |-> <<>>, lines |-> <<htmlToText(call.html)>>]
  /\ UNCHANGED <<store, sessions, env, tokenCache, call, extracted, nextLink, pageCount, result,
                 mappedFields>>

\* htmlToText(text), of the text of the first conversion
HtmlToTextAgain ==
  /\ pc = "returned"
  /\ call.tool = "htmlToText"
  /\ pc' = "again"
  /\ output' = [output EXCEPT !.lines = @ \o <<htmlToText(output.lines[1])>>]
  /\ UNCHANGED <<store, sessions, env, tokenCache, call, extracted, nextLink, pageCount, result,
                 mappedFields>>

\* buildParseParams(pages, 0)
BuildParseParams ==
  /\ pc = "idle"
  /\ call.tool = "buildParseParams"
  /\ pc' = "returned"
  /\ output' = Value(buildParseParams(call.pages))
  /\ UNCHANGED <<store, sessions, env, tokenCache, call, extracted, nextLink, pageCount, result,
                 mappedFields>>

\* The switch of extract_code on the content of a file
CodeRecords ==
  /\ pc = "idle"
  /\ call.tool = "codeRecords"
  /\ pc' = "returned"
  /\ output' = Value(Arr(codeRecords(call.content, call.extractionMode,
                                     IF Truthy(call.language) THEN call.language[1]
                                     ELSE detectLanguage(call.ext))))
  /\ UNCHANGED <<store, sessions, env, tokenCache, call, extracted, nextLink, pageCount, result,
                 mappedFields>>

NextUtils ==
  \/ BuildParseParams
  \/ CodeRecords
  \/ ResolvePath
  \/ FlattenObject
  \/ HtmlToText
  \/ HtmlToTextAgain

SpecUtils == InitUtils /\ [][NextUtils]_vars

(***************************************************************************)
(* Properties of format resolution                                         *)
(***************************************************************************)
Returned == pc = "returned"
Resolved == result.metadata.outputFormat
NoExplicit == explicitFormat = None
Listed == targetTool # None /\ targetTool[1] \in DOMAIN TARGET_TOOL_FORMAT_MAP
Heuristic == NoExplicit /\ ~Listed
Records == result.records
TopValues(rec) == {rec.v[j][2] : j \in 1..Len(rec.v)}

RECURSIVE NestingDepth(_)
NestingDepth(val) ==
  IF val.k # "object" \/ Len(val.v) = 0 THEN 0
  ELSE 1 + MaxOf([j \in 1..Len(val.v) |-> NestingDepth(val.v[j][2])], 1)

\* the maximum nesting depth of a record's values
ValuesDepth(rec) == MaxOf([j \in 1..Len(rec.v) |-> NestingDepth(rec.v[j][2])], 1)

EveryValueFlat ==
  \A i \in 1..Len(Records) : \A val \in TopValues(Records[i]) : val.k # "object"

C4_Original ==
  (Returned /\ Len(Records) = 0) =>
    /\ (NoExplicit /\ targetTool = None) => Resolved = "json"
    /\ Resolved = "csv" =>
         /\ output.kind = "lines"
         /\ Len(output.lines) = 2
         /\ output.lines[1][1] = "comment"
         /\ output.lines[1][2] = <<"source", "extractedAt", "records">>
         /\ output.lines[2] = <<"(no data)">>

\* C4 amended: no records resolve to json, and the csv rendering of no
\* records is exactly a comment line stating the source and the record count
\* 0 (no timestamp), then "(no data)", with no header row.
C4_NoRecords ==
  (Returned /\ Len(Records) = 0) =>
    /\ (NoExplicit /\ targetTool = None) => Resolved = "json"
    /\ Resolved = "csv" =>
         /\ output.kind = "lines"
         /\ output.lines =
              << <<"comment", <<"source", "records">>, result.metadata.source,
                   None, 0>>,
                 <<"(no data)">> >>

\* csv asked for a result without records
C4_Witness ==
  /\ Returned
  /\ Len(Records) = 0
  /\ explicitFormat = Some("csv")
  /\ Len(output.lines) = 2

\* some record has a top-level string longer than 200 characters
SomeLongString ==
  \E i \in 1..Len(Records) :
    \E val \in TopValues(Records[i]) : val.k = "string" /\ Len(val.v) > 200

Mappable ==
  /\ targetTool # None
  /\ targetTool[1] \in DOMAIN TARGET_TOOL_FIELDS
  /\ Len(Records) >= 1

\* The positions of the keys that equal, and of those that contain or are
\* contained in, an expected name, case-insensitively.
ExactAt(rec, expected) ==
  {i \in 1..Len(rec.v) : toLowerCase(rec.v[i][1]) = toLowerCase(expected)}

ContainsAt(rec, expected) ==
  {i \in 1..Len(rec.v) :
     \/ includes(toLowerCase(rec.v[i][1]), toLowerCase(expected))
     \/ includes(toLowerCase(expected), toLowerCase(rec.v[i][1]))}

First(positions) == CHOOSE i \in positions : \A j \in positions : i <= j

\* The value the claim maps an expected field to, when some key matches.
ClaimedValue(rec, expected) ==
  IF ExactAt(rec, expected) # {} THEN rec.v[First(ExactAt(rec, expected))][2]
  ELSE rec.v[First(ContainsAt(rec, expected))][2]

MappingAsClaimed ==
  /\ mappedFields # None
  /\ \A expected \in Range(TARGET_TOOL_FIELDS[targetTool[1]]) :
       ContainsAt(Records[1], expected) # {} =>
         Get(mappedFields[1], expected) = ClaimedValue(Records[1], expected)

\* C6: each expected field is mapped, from the first record only, to the
\* value of the key that equals its name case-insensitively, otherwise to the
\* value of the first key that contains or is contained in its name.
C6_FieldMapping == (Returned /\ Mappable) => MappingAsClaimed

\* The same, for a first record none of whose keys is the empty string.
C6_NonEmptyKeys ==
  (Returned /\ Mappable /\ <<>> \notin Range(ObjectKeys(Records[1]))) =>
    MappingAsClaimed

\* C7: the field names under mappedFields in the rendered json envelope are
\* the tool's full expected-field list, matched or not.
C7_UnsetMarker ==
  (Returned /\ output.kind = "json" /\ output.doc.mappedFields # None) =>
    ObjectKeys(output.doc.mappedFields[1]) = TARGET_TOOL_FIELDS[targetTool[1]]

HasMappedFields(out) ==
  \/ out.kind = "json" /\ out.doc.mappedFields # None
  \/ out.kind = "lines"
       /\ \E l \in 1..Len(out.lines) : out.lines[l][1] = "mappedFields"

\* The lines of a rendering that show one field of one record.
FieldLines(out, tag) == SelectSeq(out.lines, LAMBDA line : line[1] = tag)

OwnFields(tag) ==
  Flatten([i \in 1..Len(extracted) |->
             [j \in 1..Len(extracted[i].v) |->
                <<tag, extracted[i].v[j][1], display(extracted[i].v[j][2])>>]])

\* Each rendering shows the field names and values the tool extracted.
RecordsAsExtracted ==
  /\ Resolved = "json" => output.doc.records = extracted
  /\ Resolved = "markdown" => FieldLines(output, "bullet") = OwnFields("bullet")
  /\ Resolved = "key-value" =>
       FieldLines(output, "key-value") = OwnFields("key-value")
  /\ (Resolved = "csv" /\ Len(extracted) >= 1) =>
       /\ Range(output.lines[2][2]) = keySet(extracted)
       /\ Len(output.lines) = 2 + Len(extracted)
       /\ \A i \in 1..Len(extracted) : \A h \in 1..Len(output.lines[2][2]) :
            output.lines[2 + i][2][h] = csvCell(extracted[i], output.lines[2][2][h])
  /\ Resolved = "summary" =>
       \A l \in 2..Len(output.lines) :
         output.lines[l][1] \in {"distribution", "unique values", "value"} =>
           output.lines[l][2] \in keySet(extracted)

\* C8: the rendering contains a mappedFields section if and only if the
\* resolved format is json, the target tool has an expected-field list and
\* there is a record; the other four renderings never contain one; in every
\* rendering the records appear with the field names and values the tool
\* extracted, and format() leaves the records of the result as they were.
C8_MappedFieldsOnlyInJson ==
  Returned =>
    /\ HasMappedFields(output) <=> (Resolved = "json" /\ Mappable)
    /\ Resolved # "json" => output.kind = "lines"
    /\ RecordsAsExtracted
    /\ result.records = extracted

\* a mapping was computed but the format is markdown: no mappedFields
C8_Witness ==
  /\ Returned
  /\ Mappable
  /\ mappedFields # None
  /\ Resolved = "markdown"
  /\ ~HasMappedFields(output)

(***************************************************************************)
(* Properties of the csv rendering                                         *)
(***************************************************************************)
Special(text) == \E i \in 1..Len(text) : text[i] \in {",", "\"", "\n"}

RECURSIVE Doubled(_)
Doubled(text) ==
  IF Len(text) = 0 THEN <<>>
  ELSE (IF Head(text) = "\"" THEN <<"\"", "\"">> ELSE <<Head(text)>>)
         \o Doubled(Tail(text))

RECURSIVE Undoubled(_)
Undoubled(text) ==
  IF Len(text) = 0 THEN <<>>
  ELSE IF Len(text) >= 2 /\ text[1] = "\"" /\ text[2] = "\""
    THEN <<"\"">> \o Undoubled(SubSeq(text, 3, Len(text)))
  ELSE <<Head(text)>> \o Undoubled(Tail(text))

\* Remove the wrapping quotes of a field and un-double the quotes inside.
Unescaped(cell) ==
  IF Len(cell) >= 2 /\ cell[1] = "\"" /\ cell[Len(cell)] = "\""
    THEN Undoubled(SubSeq(cell, 2, Len(cell) - 1))
    ELSE cell

CsvRendered == Returned /\ Resolved = "csv" /\ Len(Records) >= 1

\* C10: a value whose text contains a comma, a double quote or a newline is
\* emitted wrapped in double quotes with each inner quote doubled, any other
\* value unchanged; unwrapping and un-doubling gives back the text.
C10_CsvEscaping ==
  CsvRendered =>
    \A i \in 1..Len(Records) : \A h \in 1..Len(output.lines[2][2]) :
      LET val == Get(Records[i], output.lines[2][2][h])
          cell == output.lines[2 + i][2][h]
      IN val.k \notin {"undefined", "null"} =>
           /\ Special(csvText(val)) =>
                cell = <<"\"">> \o Doubled(csvText(val)) \o <<"\"">>
           /\ ~Special(csvText(val)) => cell = csvText(val)
           /\ Unescaped(cell) = csvText(val)

\* a row holding a value with quotes and one with a comma
C10_Witness ==
  /\ CsvRendered
  /\ Records[1] = RecCompany
  /\ output.lines[3][2][2] =
       <<"\"", "s", "a", "y", " ", "\"", "\"", "h", "i", "\"", "\"", "\"">>

\* Whether position i of a csv line stands inside a quoted field.
Quoted(text, i) == Cardinality({j \in 1..(i - 1) : text[j] = "\""}) % 2 = 1

\* The positions of the commas that separate the fields of a csv line.
Separators(text) == {i \in 1..Len(text) : text[i] = "," /\ ~Quoted(text, i)}

SeparatorAt(text, n) ==
  CHOOSE i \in Separators(text) :
    Cardinality({j \in Separators(text) : j < i}) = n - 1

\* The fields a reader of the csv line finds, unwrapped and un-doubled.
CsvFields(text) ==
  LET count == Cardinality(Separators(text)) + 1
  IN [n \in 1..count |->
        Unescaped(SubSeq(text,
                         IF n = 1 THEN 1 ELSE SeparatorAt(text, n - 1) + 1,
                         IF n = count THEN Len(text)
                                      ELSE SeparatorAt(text, n) - 1))] \o <<>>

\* The field names of the records, and where each is first seen: the record,
\* and the place among that record's names.
FieldNames == UNION {Range(ObjectKeys(Records[i])) : i \in 1..Len(Records)}

FirstSeen(name) ==
  LET i == CHOOSE i \in 1..Len(Records) :
             /\ name \in Range(ObjectKeys(Records[i]))
             /\ \A j \in 1..(i - 1) : name \notin Range(ObjectKeys(Records[j]))
      at == CHOOSE j \in 1..Len(Records[i].v) : Records[i].v[j][1] = name
  IN <<i, at>>

Earlier(a, b) == a[1] < b[1] \/ (a[1] = b[1] /\ a[2] < b[2])

\* The columns list every field name once, in the order of first appearance.
ListsFieldNames(columns) ==
  /\ Range(columns) = FieldNames
  /\ Len(columns) = Cardinality(FieldNames)
  /\ \A p \in 1..Len(columns) : \A q \in (p + 1)..Len(columns) :
       Earlier(FirstSeen(columns[p]), FirstSeen(columns[q]))

\* The fields of a row, one per column: empty for a missing or null value,
\* compact JSON text for an object or an array, the text of the value else.
RowCarries(fields, columns, record) ==
  /\ Len(fields) = Len(columns)
  /\ \A h \in 1..Len(columns) :
       LET val == Get(record, columns[h])
       IN fields[h] = IF val.k \in {"undefined", "null"} THEN <<>>
                      ELSE IF val.k \in {"object", "array"} THEN JsonText(val)
                      ELSE JsString(val)

HeaderText == csvLine(output.lines[2][2])
RowText(i) == csvLine(output.lines[2 + i][2])
PlainNames == \A name \in FieldNames : ~Special(name)

\* C11: for a result with at least one record the csv header row lists every
\* field name observed in any record exactly once, in order of first
\* appearance, and every data row carries one field per header column, in
\* header order: empty when the record lacks the field or holds null, compact
\* JSON text when the value is an object or an array.
C11_CsvHeaderAndRows ==
  (CsvRendered /\ FieldNames # {}) =>
    /\ ListsFieldNames(CsvFields(HeaderText))
    /\ \A i \in 1..Len(Records) :
         RowCarries(CsvFields(RowText(i)), CsvFields(HeaderText), Records[i])

\* The same, for records none of whose field names holds a comma, a double
\* quote or a newline.
C11_PlainNames ==
  (CsvRendered /\ FieldNames # {} /\ PlainNames) =>
    /\ ListsFieldNames(CsvFields(HeaderText))
    /\ \A i \in 1..Len(Records) :
         RowCarries(CsvFields(RowText(i)), CsvFields(HeaderText), Records[i])

\* two records with different field names, one value an array, one null
C11_PlainWitness ==
  /\ CsvRendered
  /\ Records = <<RecAcme, RecEmptyKey>>
  /\ CsvFields(HeaderText) =
       <<<<"N", "a", "m", "e">>, k_industry, <<>>, <<"t", "a", "g", "s">>,
         k_notes, <<"o", "k">>>>
  /\ CsvFields(RowText(2)) =
       <<<<>>, <<>>, <<"l", "1", "\n", "l", "2">>,
         <<"[", "1", ",", "1", "2", "]">>, <<>>, <<"t", "r", "u", "e">>>>

(***************************************************************************)
(* The handlers of the extraction tools                                    *)
(***************************************************************************)
InitExtract ==
  /\ store = SeedStore
  /\ sessions = NoSessions
  /\ pc = "idle"
  /\ env \in Envs
  /\ tokenCache = NoTokens
  /\ call = NoCall
  /\ result = NoResult
  /\ extracted = <<>>
  /\ nextLink = None
  /\ pageCount = 0
  /\ mappedFields = None
  /\ output = NoOutput

\* The handler goes on with these values of its local variables.
Goes(to, records, link, pages, res, out) ==
  /\ pc' = to
  /\ extracted' = records
  /\ nextLink' = link
  /\ pageCount' = pages
  /\ result' = res
  /\ mappedFields' = None
  /\ output' = out

\* const result: ExtractionResult = {...}, about to be formatted
Built(src, records, warnings) ==
  Goes("built", records, nextLink, pageCount, NewResult(src, records, warnings),
       NoOutput)

\* return { content: [{ type: "text", text }] } without a result
Returns(parts) == Goes("returned", <<>>, None, 0, NoResult, Message(parts))

\* An exception inside the try block of a handler
Fails(message) == Goes("returned", <<>>, None, 0, NoResult, caught(message))

\* The records of extract_json and its warnings.
jsonRecords(c, resolved) ==
  flattenRecords(selectRecordFields(normalize(resolved), c.selectFields), c.flatten)

\* A variant that keeps the last records instead of the first.
capped_fromEnd(records) ==
  IF Len(records) > MAX_JSON_RECORDS
    THEN SubSeq(records, Len(records) - MAX_JSON_RECORDS + 1, Len(records))
  ELSE records

capped(records) ==
  IF Len(records) > MAX_JSON_RECORDS THEN SubSeq(records, 1, MAX_JSON_RECORDS)
  ELSE records

jsonWarnings(records) ==
  IF Len(records) > MAX_JSON_RECORDS
    THEN << <<"Results truncated to 500 records.">> >>
    ELSE <<>>

resolvedOf(c) ==
  IF c.jsonPath # None /\ c.jsonPath[1] # <<>>
    THEN resolveJsonPath(c.source[1], c.jsonPath[1])
    ELSE c.source[1]

\* extract_json: the handler up to the call of format()
InvokeJson(c) ==
  /\ pc = "idle"
  /\ call' = c
  /\ UNCHANGED <<store, sessions, env, tokenCache>>
  /\ \E readable \in (IF c.file THEN BOOLEAN ELSE {TRUE}) :
       IF ~readable THEN Fails("ENOENT")
       ELSE IF c.source = None THEN Fails("JSON.parse")
       ELSE IF resolvedOf(c).k = "undefined"
         THEN Returns(<<"No data found at path", c.jsonPath[1]>>)
       ELSE Built("json", capped(jsonRecords(c, resolvedOf(c))),
                  jsonWarnings(jsonRecords(c, resolvedOf(c))))

\* extractionMode defaults to "structure"
modeOf(c) == IF c.extractionMode # None THEN c.extractionMode[1] ELSE "structure"

\* extract_code: the handler up to the call of format()
InvokeCode(c) ==
  /\ pc = "idle"
  /\ call' = c
  /\ UNCHANGED <<store, sessions, env, tokenCache>>
  /\ \E content \in {None} \cup {Some(lines) : lines \in CodeFiles(modeOf(c))} :
       IF content = None THEN Fails("ENOENT")
       ELSE Built("code",
                  codeRecords(content[1], modeOf(c),
                              IF Truthy(c.language) THEN c.language[1]
                              ELSE detectLanguage(c.ext)),
                  <<>>)

\* The answers extract_pdf can get: a failure, or the pages and the tables.
PdfAnswers ==
  {[failure |-> f, pages |-> <<>>, tables |-> None] :
     f \in {"ENOENT", "EACCES", "import", "getText"}}
    \cup {[failure |-> "", pages |-> pages, tables |-> tables] :
            pages \in PdfPages, tables \in {None} \cup {Some(t) : t \in PdfTables}}

\* extract_pdf: the handler up to the call of format()
InvokePdf(c) ==
  /\ pc = "idle"
  /\ call' = c
  /\ UNCHANGED <<store, sessions, env, tokenCache>>
  /\ \E answer \in PdfAnswers :
       CASE answer.failure = "ENOENT" -> Returns(<<"File not found">>)
         [] answer.failure = "import" -> Returns(<<"PDF parsing is not available">>)
         [] answer.failure \in {"EACCES", "getText"} ->
              Fails(answer.failure)
         [] OTHER ->
              Built("pdf",
                    pdfRecords(answer.pages,
                               IF c.extractTables /\ answer.tables # None
                                 THEN answer.tables[1] ELSE <<>>),
                    pdfWarnings(answer.pages, c.extractTables /\ answer.tables = None))

\* After the token: extract_email sends its request; extract_dataverse
\* resolves the environment URL and enters the pagination loop.
Start(c) ==
  IF c.tool = "extract_dataverse" /\ c.environmentUrl = ""
       /\ ~getDataverseConfig(env)
    THEN Returns(<<"Dataverse environment URL not provided">>)
    ELSE Goes("request", <<>>,
              IF c.tool = "extract_dataverse" THEN Some("first") ELSE None,
              0, NoResult, NoOutput)

configured(c) ==
  IF c.key = "graph" THEN getGraphConfig(env) ELSE getDataverseConfig(env)

\* extract_email and extract_dataverse: accessToken || await get...Token()
InvokeRemote(c) ==
  /\ pc = "idle"
  /\ \A key \in CacheKeys : issuedBy(tokenCache, key, c.now)
  /\ call' = c
  /\ UNCHANGED <<store, sessions, env, tokenCache>>
  /\ IF c.accessToken # "" THEN Start(c)
     ELSE IF ~configured(c) THEN Fails("not configured")
     ELSE IF cachedValid(tokenCache, c.key, c.now) THEN Start(c)
     ELSE Goes("token", <<>>, None, 0, NoResult, NoOutput)

\* getToken: the answer of the token endpoint
TokenResponse ==
  /\ pc = "token"
  /\ UNCHANGED <<store, sessions, env, call>>
  /\ \E answer \in {"ok", "refused", "throws"} :
       IF answer = "ok"
         THEN /\ tokenCache' =
                   set(tokenCache, call.key, CachedToken("fresh", call.now, EXPIRES_IN))
              /\ Start(call)
         ELSE /\ tokenCache' = failedToken(tokenCache, call.key)
              /\ Fails(answer)

Statuses == {200, 401, 404, 500}

\* extract_email: the answer of the mail API
EmailResponse ==
  /\ pc = "request"
  /\ call.tool = "extract_email"
  /\ UNCHANGED <<store, sessions, env, call>>
  /\ \E status \in Statuses \cup {0} :
       CASE status = 0 ->
              UNCHANGED tokenCache /\ Fails("fetch")
         [] status = 401 ->
              tokenCache' = clearCache(tokenCache) /\ Returns(<<"Authentication failed (401)">>)
         [] status \in {404, 500} ->
              UNCHANGED tokenCache /\ Returns(<<"Graph API error", status>>)
         [] OTHER ->
              /\ UNCHANGED tokenCache
              /\ \E value \in MessageLists, link \in {None, Some("next")} :
                   Built("email",
                         emailRecords(IF value = None THEN <<>> ELSE value[1]),
                         IF Truthy(link)
                           THEN << <<"More emails available.",
                                     IF value = None THEN 0 ELSE Len(value[1])>> >>
                           ELSE <<>>)

\* The sizes of a page: none, a few rows, more rows than the largest top.
PageSizes == {0, MaxRows, MAX_TOP + 1}

\* extract_dataverse: one turn of the pagination loop
DataversePage ==
  /\ pc = "request"
  /\ call.tool = "extract_dataverse"
  /\ morePages(nextLink, extracted, pageCount, call.top)
  /\ UNCHANGED <<store, sessions, env, call>>
  /\ \E status \in Statuses \cup {0} :
       CASE status = 0 ->
              UNCHANGED tokenCache /\ Fails("fetch")
         [] status = 401 ->
              tokenCache' = clearCache(tokenCache) /\ Returns(<<"Authentication failed (401)">>)
         [] status = 404 ->
              UNCHANGED tokenCache /\ Returns(<<"Table not found">>)
         [] status = 500 ->
              UNCHANGED tokenCache /\ Returns(<<"Dataverse API error", status>>)
         [] OTHER ->
              /\ UNCHANGED tokenCache
              /\ \E value \in {None} \cup {Some(Page(n)) : n \in PageSizes},
                    link \in {None, Some("next")} :
                   Goes("request",
                        extracted
                          \o (IF value = None THEN <<>>
                              ELSE [r \in 1..Len(value[1]) |->
                                      stripODataAnnotations(value[1][r])]),
                        link, pageCount + 1, NoResult, NoOutput)

\* extract_dataverse: after the loop, up to the call of format()
DataverseDone ==
  /\ pc = "request"
  /\ call.tool = "extract_dataverse"
  /\ ~morePages(nextLink, extracted, pageCount, call.top)
  /\ UNCHANGED <<store, sessions, env, tokenCache, call>>
  /\ Built("dataverse", trimmed(extracted, call.top),
           dataverseWarnings(nextLink, trimmed(extracted, call.top), call.top))

\* The response is sent; the handler's variables are gone.
Done ==
  /\ pc = "returned"
  /\ UNCHANGED <<store, sessions, env, tokenCache>>
  /\ call' = NoCall
  /\ Goes("idle", <<>>, None, 0, NoResult, NoOutput)

NextExtract ==
  \/ \E c \in JsonCalls : InvokeJson(c)
  \/ \E c \in CodeCalls : InvokeCode(c)
  \/ \E c \in PdfCalls : InvokePdf(c)
  \/ \E c \in EmailCalls \cup DataverseCalls : InvokeRemote(c)
  \/ TokenResponse
  \/ EmailResponse
  \/ DataversePage
  \/ DataverseDone
  \/ Format
  \/ Done

SpecExtract == InitExtract /\ [][NextExtract]_vars

(***************************************************************************)
(* Properties of the extraction tools                                      *)
(***************************************************************************)
\* C9: in every extraction tool, the result handed to the formatter has
\* metadata.recordCount equal to the number of its records, also when the
\* records were cut to a cap.
C9_RecordCount ==
  /\ result.metadata.recordCount = Len(result.records)
  /\ pc = "built" => result.records = extracted

\* extract_json cut 500 + MaxRows records to 500 and counted 500
C9_Witness ==
  /\ pc = "built"
  /\ call.tool = "extract_json"
  /\ Len(result.metadata.warnings) = 1
  /\ Len(result.records) = MAX_JSON_RECORDS
  /\ result.metadata.recordCount = MAX_JSON_RECORDS

(***************************************************************************)
(* Properties of the token cache                                           *)
(***************************************************************************)
\* A call that needs a token of the server enters getToken.
AsksToken ==
  /\ pc = "idle"
  /\ call'.tool \in {"extract_email", "extract_dataverse"}
  /\ call'.accessToken = ""
  /\ IF call'.key = "graph" THEN getGraphConfig(env) ELSE getDataverseConfig(env)

Entry == tokenCache[call'.key]
TokenRequested == pc' = "token"

\* No token request exactly when the entry is valid with the buffer.
ServedIffValid ==
  (~TokenRequested) <=>
    (Entry # None /\ call'.now < Entry[1].expiresAt - 300000)

\* The entry of a token fetched at 0 with expires_in = 3600.
ServedBefore3300s ==
  (Entry # None /\ Entry[1].expiresAt = 3600000) =>
    /\ (call'.now < 3300000) => ~TokenRequested
    /\ (call'.now >= 3300000) => TokenRequested

\* The answer of the token endpoint replaces the entry.
EntryOverwritten ==
  tokenCache'[call.key] =
    Some([accessToken |-> "fresh", expiresAt |-> call.now + 3600 * 1000])

\* C12: getToken serves the cached token without a token request if and only
\* if the request time is strictly earlier than the entry's expiry minus 5
\* minutes; otherwise it fetches, and the answer overwrites the entry. A token
\* fetched at T with expires_in = 3600 is served for requests before
\* T + 3300 s and fetched again for a request at or after T + 3300 s.
C12_TokenCache ==
  [][/\ AsksToken => (ServedIffValid /\ ServedBefore3300s)
     /\ (pc = "token" /\ pc' # "returned") => EntryOverwritten]_vars

\* a token fetched at 0 is served to a call one millisecond before 3300 s
C12_Witness ==
  /\ pc = "request"
  /\ call.accessToken = ""
  /\ call.now = 3299999
  /\ tokenCache[call.key] # None
  /\ tokenCache[call.key][1].expiresAt = 3600000

(***************************************************************************)
(* Properties of the answers of the remote services                        *)
(***************************************************************************)
Remediation == Message(<<"Authentication failed (401)">>)

\* The handler returns the remediation message of a 401.
Answers401 == pc = "request" /\ pc' = "returned" /\ output' = Remediation

\* C13: when the mail API or the tabular API answers 401, the invocation
\* returns a remediation message and the cached credential is invalidated:
\* the token cache holds no token for that API afterwards, also when the
\* response has been sent, and the next invocation that needs a token of the
\* server requests one.
C13_Unauthorized ==
  [][/\ Answers401 => tokenCache'[call.key] = None
     /\ (pc = "returned" /\ output = Remediation) =>
          (tokenCache'[call.key] = None /\ pc' = "idle")
     /\ (AsksToken /\ Entry = None) => TokenRequested]_vars

\* a 401 answered a request made with a token of the server
C13_Witness ==
  /\ pc = "returned"
  /\ output = Remediation
  /\ call.accessToken = ""
  /\ tokenCache = NoTokens

(***************************************************************************)
(* Properties of the pagination of extract_dataverse                       *)
(***************************************************************************)
Dataverse == call.tool = "extract_dataverse"

\* The top the caller asked for, 50 when none was given.
RequestedTop == IF call.top = None THEN 50 ELSE call.top[1]

Least(a, b) == IF a < b THEN a ELSE b

\* One turn of the pagination loop has fetched a page.
PageFetched == Dataverse /\ pc = "request" /\ pc' = "request"

\* The loop is left for the result.
LoopLeft == Dataverse /\ pc = "request" /\ pc' = "built"

\* C14: an extract_dataverse invocation with requestedTop >= 1 (default 50)
\* fetches at most 5 pages and returns at most min(requestedTop, 500)
\* records, whatever the page sizes and continuation links; the loop ends
\* even when every page carries a link: each turn counts one page more and
\* no turn is taken after the fifth.
C14_BoundedPagination ==
  [][/\ PageFetched => (pageCount' = pageCount + 1 /\ pageCount' <= 5)
     /\ (LoopLeft /\ RequestedTop >= 1) =>
          /\ pageCount <= 5
          /\ Len(result'.records) <= Least(RequestedTop, 500)]_vars

\* five pages of MaxRows rows, each with a link: the loop ended at the ceiling
C14_Witness ==
  /\ Dataverse
  /\ pc = "built"
  /\ call.top = None
  /\ pageCount = 5
  /\ nextLink # None
  /\ Len(result.records) = 5 * MaxRows

\* The loop is over and a continuation link is left.
LinkLeft == Dataverse /\ pc = "built" /\ nextLink # None /\ nextLink[1] # ""

\* metadata.warnings says that more records are available.
WarnsOfMore ==
  \E w \in 1..Len(result.metadata.warnings) :
    result.metadata.warnings[w][1] = "More records available in Dataverse."

\* C15: whenever extract_dataverse stops paginating with a continuation link
\* still present, because the record bound or the 5-page ceiling was reached,
\* a warning that more records are available is recorded in
\* metadata.warnings, also when the ceiling is hit with fewer records than
\* min(requestedTop, 500).
C15_LinkLeftWarns == LinkLeft => WarnsOfMore

\* The same, for the loops that the record bound ended.
C15_AtRecordBound ==
  (LinkLeft /\ RequestedTop >= 1
     /\ Len(result.records) >= Least(RequestedTop, 500)) => WarnsOfMore

\* the requested top was reached with a link left, and the warning is there
C15_BoundWitness ==
  /\ LinkLeft
  /\ call.top = Some(1)
  /\ Len(result.records) = 1
  /\ WarnsOfMore

(***************************************************************************)
(* Properties of the responses                                             *)
(***************************************************************************)
\* The response holds a text: a rendering or a message.
TextReturned == pc = "returned" /\ output.kind \in {"json", "lines", "message"}

\* The steps a handler has left at most: the token, five pages, the result,
\* the formatting.
StepsLeft ==
  CASE pc = "token" -> 8
    [] pc = "request" -> 7 - pageCount
    [] pc = "built" -> 1
    [] OTHER -> 0

\* C16: every invocation of an extraction tool ends by returning a response
\* whose content is a text item: a failure in file access, parsing, token
\* acquisition or a remote call becomes a plain-text message and never
\* leaves the handler as an exception. Every step of a handler brings it
\* nearer to its return, and the handler is left only by a response with a
\* text.
C16_AlwaysText ==
  [][/\ pc' = "returned" => TextReturned'
     /\ pc \notin {"idle", "returned"} => (pc' # "idle" /\ StepsLeft' < StepsLeft)
     /\ pc' = "idle" => TextReturned]_vars

\* the token endpoint refused, and extract_email answered with a message
C16_Witness ==
  /\ pc = "returned"
  /\ call.tool = "extract_email"
  /\ output = Message(<<"Extraction failed", "refused">>)

(***************************************************************************)
(* Properties of the path resolver                                         *)
(***************************************************************************)
Resolving == pc = "returned" /\ call.tool = "resolveJsonPath"

\* The value the names lead to, one name at a time: a field of an object, an
\* element of a sequence.
RECURSIVE Reached(_, _)
Reached(val, names) ==
  IF names = <<>> THEN val
  ELSE IF val.k = "object" THEN Reached(Get(val, Head(names)), Tail(names))
  ELSE IF /\ val.k = "array"
          /\ \A i \in 1..Len(Head(names)) : IsDigit(Head(names)[i])
          /\ DigitsValue(Head(names)) < Len(val.v)
    THEN Reached(val.v[DigitsValue(Head(names)) + 1], Tail(names))
  ELSE Undefined

\* The wildcard is reached on a sequence: in dot notation anywhere, in
\* bracket notation after a name.
ReachesWildcard(names, star) ==
  /\ Reached(call.obj, names).k = "array"
  /\ names = <<>> => star = "dot"

\* C17: a wildcard segment reached on a sequence of length n with a non-empty
\* remaining path gives a sequence of length n whose i-th element is
\* resolve(element i, remaining path), undefined kept in place for the
\* elements that lack the path; with no remaining path it gives the sequence
\* itself.
C17_Wildcard ==
  Resolving =>
    /\ (call.obj = DocItems /\ call.path = <<"i", "t", "e", "m", "s", "[", "*", "]", ".", "i", "d">>) =>
         output.doc = Arr(<<Num(1), Num(2)>>)
    /\ \A names \in PathPrefixes, star \in Stars, rest \in PathRests :
         (call.path = WildPath(names, star, rest) /\ ReachesWildcard(names, star)) =>
           LET seq == Reached(call.obj, names)
           IN IF rest = <<>> THEN output.doc = seq
              ELSE /\ output.doc.k = "array"
                   /\ Len(output.doc.v) = Len(seq.v)
                   /\ \A i \in 1..Len(seq.v) :
                        output.doc.v[i] = resolveJsonPath(seq.v[i], rest)

\* items[*].id over six elements, four of which lack the field
C17_Witness ==
  /\ Resolving
  /\ call.obj = DocMixed
  /\ call.path = <<"i", "t", "e", "m", "s", "[", "*", "]", ".", "i", "d">>
  /\ output.doc = Arr(<<Num(1), Undefined, Undefined, Undefined, Null, Undefined>>)

\* The bracket index resolves like the dot-integer segment, after the names.
IndexLikeDot(names) ==
  \A index \in Indexes, rest \in {<<>>, k_id} :
    call.path = IndexPath(names, index, TRUE, rest) =>
      output.doc = resolveJsonPath(call.obj, IndexPath(names, index, FALSE, rest))

\* The bracket wildcard fans out over the sequence the names lead to.
BracketFansOut(names) ==
  \A rest \in PathRests \ {<<>>} :
    (call.path = WildPath(names, "bracket", rest)
       /\ Reached(call.obj, names).k = "array") =>
      output.doc = Arr([i \in 1..Len(Reached(call.obj, names).v) |->
                          resolveJsonPath(Reached(call.obj, names).v[i], rest)] \o <<>>)

\* C18: a bracket index resolves exactly like the corresponding dot-integer
\* segment and a bracket wildcard fans out over a sequence, wherever the
\* bracket stands in the path, the first segment applied to a root sequence
\* included: resolve(seq, "[0]") = resolve(seq, "0") = seq[0], and
\* resolve(seq, "[*].id") gives the ids of the elements.
C18_BracketLikeDot ==
  Resolving => \A names \in PathPrefixes : IndexLikeDot(names) /\ BracketFansOut(names)

\* The same after a name: a[0] is a.0, a[*] fans out over a.
C18_AfterName ==
  Resolving =>
    \A names \in PathPrefixes \ {<<>>} : IndexLikeDot(names) /\ BracketFansOut(names)

\* grid.0[1].id is grid.0.1.id
C18_AfterNameWitness ==
  /\ Resolving
  /\ call.obj = DocMixed
  /\ call.path = <<"g", "r", "i", "d", ".", "0", "[", "1", "]", ".", "i", "d">>
  /\ output.doc = Num(12)

\* "[0]" on a root sequence finds nothing, "0" finds the first element.
C18_RootWitness ==
  /\ Resolving
  /\ call.obj = DocRoot
  /\ call.path = <<"[", "0", "]">>
  /\ output.doc = Undefined
  /\ resolveJsonPath(DocRoot, <<"0">>) = DocRoot.v[1]

(***************************************************************************)
(* Properties of flattening                                                *)
(***************************************************************************)
Flattening == pc = "returned" /\ call.tool = "flattenObject"

\* The names of the object and of the objects nested in it, each with the
\* names that lead to it.
RECURSIVE Names(_, _)
Names(val, above) ==
  UNION {{above \o <<val.v[i][1]>>}
           \cup (IF val.v[i][2].k = "object"
                   THEN Names(val.v[i][2], above \o <<val.v[i][1]>>) ELSE {})
         : i \in 1..Len(val.v)}

\* The leaves: the values that are not objects (scalars, null, sequences).
Leaves(val) == {names \in Names(val, <<>>) : Reached(val, names).k # "object"}

NoPathSyntax(name) == \A i \in 1..Len(name) : name[i] \notin {".", "[", "]"}

PlainKeys(val) ==
  \A names \in Names(val, <<>>) : NoPathSyntax(names[Len(names)])

NamedKeys(val) ==
  \A names \in Names(val, <<>>) : names[Len(names)] # <<>>

FlattenAgreesWithResolve ==
  /\ \A i \in 1..Len(output.doc.v) :
       resolveJsonPath(call.obj, output.doc.v[i][1]) = output.doc.v[i][2]
  /\ \A names \in Leaves(call.obj) :
       Get(output.doc, Dotted(names)) = Reached(call.obj, names)

\* C19: for an object whose keys, nested ones included, contain no ".", "["
\* or "]", every key k of flattenObject(obj) has
\* resolveJsonPath(obj, k) = flattenObject(obj)[k]; every scalar, null or
\* sequence leaf appears under its dot-joined key path, sequences intact.
C19_FlattenResolve ==
  (Flattening /\ PlainKeys(call.obj)) => FlattenAgreesWithResolve

\* The same for objects without an empty name.
C19_NamedKeys ==
  (Flattening /\ PlainKeys(call.obj) /\ NamedKeys(call.obj)) => FlattenAgreesWithResolve

\* Three levels down to a sequence that stays a sequence.
C19_NamedWitness ==
  /\ Flattening
  /\ call.obj = DocMixed
  /\ Get(output.doc, k_items).k = "array"
  /\ Len(output.doc.v) = 2

\* { "": { b: 1 } } flattens to { b: 1 }, and obj.b is undefined
C19_EmptyNameWitness ==
  /\ Flattening
  /\ call.obj = FlatEmptyName
  /\ output.doc = Obj(<< <<<<"b">>, Num(1)>> >>)
  /\ resolveJsonPath(call.obj, <<"b">>) = Undefined

(***************************************************************************)
(* Properties of the plain-text converter                                  *)
(***************************************************************************)
\* A tag as the converter strips it: "<", one or more characters other than
\* ">", then ">".
HasTag(text) ==
  \E i \in 1..Len(text), j \in 1..Len(text) :
    /\ j > i + 1
    /\ text[i] = "<"
    /\ text[j] = ">"
    /\ \A k \in (i + 1)..(j - 1) : text[k] # ">"

References ==
  {<<"&", "a", "m", "p", ";">>, <<"&", "l", "t", ";">>, <<"&", "g", "t", ";">>, <<"&", "q", "u", "o", "t", ";">>, <<"&", "#", "3", "9", ";">>, <<"&", "n", "b", "s", "p", ";">>}

HasReference(text) ==
  \E ref \in References, i \in 1..Len(text) :
    /\ i + Len(ref) - 1 <= Len(text)
    /\ SubSeq(text, i, i + Len(ref) - 1) = ref

NoMarkup(text) == ~HasTag(text) /\ ~HasReference(text)

Converted == pc = "again" /\ call.tool = "htmlToText"

\* C20: the conversion is idempotent on its own output: for every input x
\* whose converted text contains no further markup (no tag, no character
\* reference), htmlToText(htmlToText(x)) = htmlToText(x).
C20_Idempotent ==
  (Converted /\ NoMarkup(output.lines[1])) => output.lines[2] = output.lines[1]

\* "a&nbsp; b ..." converts to text with single blanks, and stays.
C20_Witness ==
  /\ Converted
  /\ call.html = HtmlNbsp
  /\ output.lines[1] = <<"a", " ", "b", " ", "\"", "c", "\"", " ", "'", "d", "'">>
  /\ NoMarkup(output.lines[1])
  /\ output.lines[2] = output.lines[1]

\* Text that still holds a reference or a tag is converted further.
C20_MarkupLeft ==
  /\ Converted
  /\ call.html = HtmlAmpAmp
  /\ output.lines = <<<<"&", "a", "m", "p", ";">>, <<"&">>>>

(***************************************************************************)
(* Properties of extract_json                                              *)
(***************************************************************************)
JsonBuilt == pc = "built" /\ call.tool = "extract_json"

\* The normalized record list of the call, before the cap.
Normalized == jsonRecords(call, resolvedOf(call))

TruncationWarning == <<"Results truncated to 500 records.">>

Warned == \E w \in 1..Len(result.metadata.warnings) :
            result.metadata.warnings[w] = TruncationWarning

\* C21: extract_json returns at most 500 records, the first 500 of the
\* normalized record list in source order, and metadata.warnings holds the
\* truncation warning if and only if the normalized list had more than 500
\* records.
C21_JsonCap ==
  JsonBuilt =>
    /\ Len(result.records) <= 500
    /\ Len(result.records) = Least(Len(Normalized), 500)
    /\ \A i \in 1..Len(result.records) : result.records[i] = Normalized[i]
    /\ Warned <=> Len(Normalized) > 500
    /\ call.file =>
         \A i \in 1..Len(result.records) :
           result.records[i] = Obj(<< <<k_value, Num(i)>> >>)

\* 502 numbers in the file: 500 records and the warning
C21_Witness ==
  /\ JsonBuilt
  /\ Len(Normalized) = 502
  /\ Len(result.records) = 500
  /\ result.records[500] = Obj(<< <<k_value, Num(500)>> >>)
  /\ Warned

(***************************************************************************)
(* Properties of the page range of extract_pdf                             *)
(***************************************************************************)
Paging == pc = "returned" /\ call.tool = "buildParseParams"

\* The number a text starts with: its leading digits, blanks aside.
Lead(str) ==
  LET t == trim(str)
  IN SubSeq(t, 1, CHOOSE k \in 0..Len(t) :
                    /\ \A j \in 1..k : IsDigit(t[j])
                    /\ k = Len(t) \/ ~IsDigit(t[k + 1]))

\* The pages a token names: a positive page, or the pages from start (1 at
\* least) through end; a token that spells no number names none.
PagesRead(token) ==
  LET t == trim(token)
      hyphens == {i \in 1..Len(t) : t[i] = "-"}
  IN IF hyphens = {}
       THEN (IF Lead(t) # <<>> /\ DigitsValue(Lead(t)) > 0
               THEN {DigitsValue(Lead(t))} ELSE {})
     ELSE LET h == CHOOSE i \in hyphens : \A j \in hyphens : i <= j
              from == Lead(SubSeq(t, 1, h - 1))
              to == Lead(SubSeq(t, h + 1, Len(t)))
          IN IF from = <<>> \/ to = <<>> THEN {}
             ELSE {n \in 1..DigitsValue(to) : n >= DigitsValue(from)}

PagesOf(tokens) == UNION {PagesRead(tokens[i]) : i \in 1..Len(tokens)}

\* The value is omitted (or empty), or is the word "all".
EveryPageAsked ==
  \/ call.pages = None
  \/ call.pages[1] = <<>>
  \/ toLowerCase(call.pages[1]) = <<"a", "l", "l">>

\* The resolved page set is the pages the tokens name, ascending, once each.
ResolvesTo(pages) ==
  /\ output.doc # None
  /\ Range(output.doc[1]) = pages
  /\ \A i \in 1..(Len(output.doc[1]) - 1) : output.doc[1][i] < output.doc[1][i + 1]

\* C22: the page set resolved from a page-range string is exactly the set of
\* positive page numbers named by its valid tokens, sorted ascending without
\* duplicates; an invalid token is dropped and does not change what the
\* others select; only "all" or an omitted value selects every page.
C22_PageSet ==
  Paging =>
    /\ output.doc = None <=> EveryPageAsked
    /\ \A tokens \in TokenLists(MaxTokens) \ {<<>>} :
         call.pages = Some(Join(tokens, <<",">>)) => ResolvesTo(PagesOf(tokens))

\* The same when some token names a page.
C22_SomePageNamed ==
  Paging =>
    \A tokens \in TokenLists(MaxTokens) \ {<<>>} :
      (call.pages = Some(Join(tokens, <<",">>)) /\ PagesOf(tokens) # {}) =>
        ResolvesTo(PagesOf(tokens))

\* "3,2-4": pages 2, 3, 4
C22_NamedWitness ==
  /\ Paging
  /\ call.pages = Some(<<"3", ",", "2", "-", "4">>)
  /\ output.doc = Some(<<2, 3, 4>>)

\* "x,1": the token x is dropped
C22_DroppedWitness ==
  /\ Paging
  /\ call.pages = Some(<<"x", ",", "1">>)
  /\ output.doc = Some(<<1>>)

\* "0": no page is named, and every page is selected
C22_NoPageWitness ==
  /\ Paging
  /\ call.pages = Some(<<"0">>)
  /\ output.doc = None

(***************************************************************************)
(* Properties of extract_code                                              *)
(***************************************************************************)
Coded(mode) ==
  pc = "returned" /\ call.tool = "codeRecords" /\ call.extractionMode = mode

Opener == <<"/", "*", "*">>
Closer == <<"*", "/">>

\* The first line at or after the i-th that contains the closer, 0 if none.
CloseOf(lines, i) ==
  LET closing == {j \in i..Len(lines) : includes(trim(lines[j]), Closer)}
  IN IF closing = {} THEN 0 ELSE CHOOSE j \in closing : \A k \in closing : j <= k

\* The i-th line opens a block: it starts with the opener and lies in no
\* block opened before it.
RECURSIVE OpensBlock(_, _)
OpensBlock(lines, i) ==
  /\ startsWith(trim(lines[i]), Opener)
  /\ \A o \in 1..(i - 1) : OpensBlock(lines, o) => CloseOf(lines, o) < i

\* The text of the lines from the i-th through the j-th.
BlockText(lines, i, j) ==
  Join([k \in 1..(j - i + 1) |-> trim(lines[i + k - 1])] \o <<>>, <<"\n">>)

\* The records of a type, each as its line and its text.
RecordsOf(type) ==
  LET found == SelectSeq(output.doc.v, LAMBDA r : Get(r, k_type) = Str(type))
  IN [n \in 1..Len(found) |->
        <<Get(found[n], k_line).v, Get(found[n], k_signature).v>>] \o <<>>

\* One record for each block, at its opening line, with the text of the
\* block cut at 500 characters.
BlockRecords(lines) ==
  /\ {r[1] : r \in Range(RecordsOf(w_doc_comment))}
       = {i \in 1..Len(lines) : OpensBlock(lines, i) /\ CloseOf(lines, i) # 0}
  /\ \A n \in 1..Len(RecordsOf(w_doc_comment)) :
       LET r == RecordsOf(w_doc_comment)[n]
       IN /\ r[2] = substring(BlockText(lines, r[1], CloseOf(lines, r[1])), 500)
          /\ \A m \in 1..(n - 1) : RecordsOf(w_doc_comment)[m][1] < r[1]

\* One record for each line that starts with "///".
TripleSlashRecords(lines) ==
  /\ Len(RecordsOf(w_xml_doc_comment))
       = Cardinality({r[1] : r \in Range(RecordsOf(w_xml_doc_comment))})
  /\ {r[1] : r \in Range(RecordsOf(w_xml_doc_comment))}
       = {i \in 1..Len(lines) : startsWith(trim(lines[i]), <<"/", "/", "/">>)}

\* C23: in comments mode every doc-comment block, from a line that starts
\* with the opener through the first line at or after it that contains the
\* closer (the opening line included), gives exactly one doc-comment record
\* at the opening line whose text is the lines of the block only, cut at 500
\* characters; every line that starts with "///" gives one xml-doc-comment
\* record.
C23_DocComments ==
  Coded("comments") => BlockRecords(call.content) /\ TripleSlashRecords(call.content)

\* No block is closed on its opening line.
ClosedLater(lines) ==
  \A i \in 1..Len(lines) :
    startsWith(trim(lines[i]), Opener) => ~includes(trim(lines[i]), Closer)

\* The same for files whose blocks are closed after the opening line.
C23_ClosedLater ==
  (Coded("comments") /\ ClosedLater(call.content)) =>
    BlockRecords(call.content) /\ TripleSlashRecords(call.content)

\* A block of three lines with a triple-slash line inside, another block
C23_LaterWitness ==
  /\ Coded("comments")
  /\ call.content = FileXmlInside
  /\ RecordsOf(w_doc_comment)[1] = <<3, <<"/", "*", "*", " ", "c", "\n", "/", "/", "/", " ", "i", "n", "s", "i", "d", "e", "\n", "e", "n", "d", " ", "*", "/", " ", "x">>>>
  /\ Len(RecordsOf(w_doc_comment)) = 2
  /\ Len(RecordsOf(w_xml_doc_comment)) = 3

\* The block of 605 characters is cut at 500.
C23_CutWitness ==
  /\ Coded("comments")
  /\ call.content = FileLongBlock
  /\ Len(RecordsOf(w_doc_comment)[1][2]) = 500

\* "/** one */" runs on to the closer of the next block.
C23_OneLineWitness ==
  /\ Coded("comments")
  /\ call.content = FileOneLine
  /\ RecordsOf(w_doc_comment) = << <<1, BlockText(FileOneLine, 1, 4)>> >>

CodeRun == pc = "returned" /\ call.tool = "codeRecords"

LineOf(r) == Get(r, k_line).v
SignatureOf(r) == Get(r, k_signature).v

\* The line numbers are lines of the file, counted from 1.
LinesFromOne ==
  \A n \in 1..Len(output.doc.v) : LineOf(output.doc.v[n]) \in 1..Len(call.content)

\* At most one record for a line, in the order of the lines.
OnePerLine ==
  \A n \in 1..(Len(output.doc.v) - 1) :
    LineOf(output.doc.v[n]) < LineOf(output.doc.v[n + 1])

SignaturesCut(types) ==
  \A n \in 1..Len(output.doc.v) :
    Get(output.doc.v[n], k_type).v \in types => Len(SignatureOf(output.doc.v[n])) <= 200

\* C24: every record of every mode (structure, imports, exports, comments,
\* full) has a 1-based line number and a signature of at most 200
\* characters; structure mode gives at most one record for a line, with line
\* numbers strictly increasing.
C24_CodeRecords ==
  CodeRun =>
    /\ LinesFromOne
    /\ \A n \in 1..Len(output.doc.v) : Len(SignatureOf(output.doc.v[n])) <= 200
    /\ call.extractionMode = "structure" => OnePerLine

\* The same, with the cap for the records that are cut at 200 characters:
\* those of structure and exports mode and the triple-slash comments.
C24_CutRecords ==
  CodeRun =>
    /\ LinesFromOne
    /\ call.extractionMode \in {"structure", "exports"} =>
         \A n \in 1..Len(output.doc.v) : Len(SignatureOf(output.doc.v[n])) <= 200
    /\ SignaturesCut({w_xml_doc_comment})
    /\ call.extractionMode = "structure" => OnePerLine

\* A line of 263 characters in structure mode: a signature of 200
C24_CutWitness ==
  /\ Coded("structure")
  /\ call.content = FileWide
  /\ call.ext = <<".", "t", "s">>
  /\ Len(output.doc.v) = 1
  /\ LineOf(output.doc.v[1]) = 2
  /\ Len(SignatureOf(output.doc.v[1])) = 200

\* A line of 257 characters in imports mode: a signature of 257
C24_ImportWitness ==
  /\ Coded("imports")
  /\ call.content = FileWide
  /\ call.ext = <<".", "t", "s">>
  /\ Len(output.doc.v) = 1
  /\ Len(SignatureOf(output.doc.v[1])) = 257

\* No language hint, and an extension that is not in the table.
UnknownLanguage ==
  CodeRun /\ ~Truthy(call.language) /\ toLowerCase(call.ext) \notin DOMAIN LANGUAGE_MAP

\* The lines that got a record.
Recorded == {LineOf(output.doc.v[n]) : n \in 1..Len(output.doc.v)}

\* The lines the typescript patterns of the mode select.
TypescriptLines ==
  LET records == codeRecords(call.content, call.extractionMode, "typescript")
  IN {Get(records[n], k_line).v : n \in 1..Len(records)}

ExportLines ==
  {i \in 1..Len(call.content) :
     startsWith(trim(call.content[i]), <<"e", "x", "p", "o", "r", "t", " ">>)}

\* C25: without a language hint and with an extension that is not in the
\* table, structure, imports and exports mode apply the typescript patterns;
\* exports mode records each line that starts with "export ".
C25_TypescriptFallback ==
  UnknownLanguage =>
    /\ call.extractionMode \in {"structure", "imports", "exports"} =>
         Recorded = TypescriptLines
    /\ call.extractionMode = "exports" => Recorded = ExportLines

\* The same for structure and imports mode.
C25_StructureImports ==
  (UnknownLanguage /\ call.extractionMode \in {"structure", "imports"}) =>
    Recorded = TypescriptLines

\* The class, the method and the function of the .txt file are found.
C25_StructureWitness ==
  /\ UnknownLanguage
  /\ call.extractionMode = "structure"
  /\ call.content = FileTs
  /\ Recorded = {4, 5, 6}

\* The two export lines of the .txt file are not recorded.
C25_ExportsWitness ==
  /\ UnknownLanguage
  /\ call.extractionMode = "exports"
  /\ call.content = FileTs
  /\ ExportLines = {4, 6}
  /\ Recorded = {}

(***************************************************************************)
(* getToken called by overlapping invocations: each invocation checks the  *)
(* cache, and, if it finds no valid token, waits for the answer of the      *)
(* token endpoint while the others run.                                     *)
(***************************************************************************)
\* The number of invocations.
MaxCalls == 2

Invocations == 1..MaxCalls

\* The clock readings an invocation can start at.
StartTimes == {0, 1000, 3300000}

\* The token the endpoint issues for the request of an invocation.
Issued(p) == <<"token", p>>

\* The invocations that have read the clock.
Started == {p \in Invocations : pc[p] # "idle"}

InitTokens ==
  /\ store = SeedStore
  /\ sessions = NoSessions
  /\ pc = [p \in Invocations |-> "idle"]
  /\ env = EnvAll
  /\ tokenCache = NoTokens
  /\ call \in [Invocations -> {[key |-> key, now |-> 0] : key \in CacheKeys}]
  /\ result = NoResult
  /\ extracted = <<>>
  /\ nextLink = None
  /\ pageCount = 0
  /\ mappedFields = None
  /\ output = [p \in Invocations |-> None]

\* getToken up to the await of fetch: the cache check at the time `now`
GetToken(p) ==
  /\ pc[p] = "idle"
  /\ \E now \in StartTimes :
       /\ \A q \in Started : call[q].now <= now
       /\ \A key \in CacheKeys : issuedBy(tokenCache, key, now)
       /\ call' = [call EXCEPT ![p].now = now]
       /\ IF cachedValid(tokenCache, call[p].key, now)
            THEN /\ pc' = [pc EXCEPT ![p] = "done"]
                 /\ output' = [output EXCEPT ![p] = Some(tokenCache[call[p].key][1].accessToken)]
            ELSE /\ pc' = [pc EXCEPT ![p] = "fetching"]
                 /\ output' = output
  /\ UNCHANGED <<store, sessions, env, tokenCache, extracted, nextLink, pageCount, result, mappedFields>>

\* getToken from the answer of the token endpoint on
TokenArrives(p) ==
  /\ pc[p] = "fetching"
  /\ UNCHANGED <<store, sessions, env, call, extracted, nextLink, pageCount, result, mappedFields>>
  /\ \E ok \in BOOLEAN :
       IF ok
         THEN /\ tokenCache' =
                   set(tokenCache, call[p].key,
                       CachedToken(Issued(p), call[p].now, EXPIRES_IN))
              /\ pc' = [pc EXCEPT ![p] = "done"]
              /\ output' = [output EXCEPT ![p] = Some(Issued(p))]
         ELSE /\ tokenCache' = failedToken(tokenCache, call[p].key)
              /\ pc' = [pc EXCEPT ![p] = "failed"]
              /\ output' = output

NextTokens ==
  \/ \E p \in Invocations : GetToken(p)
  \/ \E p \in Invocations : TokenArrives(p)

SpecTokens == InitTokens /\ [][NextTokens]_vars

(***************************************************************************)
(* Properties of the token cache under failures and overlapping calls      *)
(***************************************************************************)
\* The token request of the call fails: refused (non-2xx) or thrown.
TokenFails == pc = "token" /\ pc' = "returned"

\* C26: when token acquisition fails (the endpoint answers non-2xx, or the
\* request throws), getToken raises an error and leaves the token cache as
\* it was: no entry is added, replaced or removed, and a token already cached
\* for the key stays.
C26_FailureKeepsCache ==
  [][TokenFails =>
       /\ tokenCache' = tokenCache
       /\ output' \in {caught("refused"), caught("throws")}]_vars

\* The refresh of an expired token was refused: the old entry is still there.
C26_Witness ==
  /\ pc = "returned"
  /\ output = caught("refused")
  /\ call.accessToken = ""
  /\ call.now = 3300000
  /\ tokenCache[call.key] = Some(CachedToken("fresh", 0, EXPIRES_IN))

\* The invocation checks the cache and finds no valid token.
FindsNoToken(p) ==
  /\ pc[p] = "idle"
  /\ pc'[p] # "idle"
  /\ ~cachedValid(tokenCache, call[p].key, call'[p].now)

\* The token request of the invocation is answered with a token.
GetsToken(p) == pc[p] = "fetching" /\ pc'[p] = "done"

\* C27: getToken has no in-flight de-duplication: two invocations for the
\* same key that both check the cache before either answer arrives each
\* issue their own request and each return the token of their own request;
\* the cache entry is then the one written by the invocation that completed
\* last, with an expiry computed from the start time of that invocation, and
\* the entries of the other keys are untouched.
C27_NoDeduplication ==
  [][\A p \in Invocations :
       /\ FindsNoToken(p) => pc'[p] = "fetching"
       /\ GetsToken(p) =>
            /\ output'[p] = Some(Issued(p))
            /\ tokenCache'[call[p].key]
                 = Some([accessToken |-> Issued(p),
                         expiresAt |-> call[p].now + 3600 * 1000])
            /\ \A key \in CacheKeys \ {call[p].key} :
                 tokenCache'[key] = tokenCache[key]]_vars

\* Both invocations had a request of their own in flight.
C27_BothInFlight ==
  /\ pc[1] = "fetching"
  /\ pc[2] = "fetching"
  /\ call[1].key = call[2].key

\* The invocation that started first completed last: each returned its own
\* token, and the cache holds the token that expires earlier.
C27_Witness ==
  /\ pc[1] = "done"
  /\ pc[2] = "done"
  /\ call[1].key = "graph"
  /\ call[2].key = "graph"
  /\ call[1].now = 0
  /\ call[2].now = 1000
  /\ output[1] = Some(Issued(1))
  /\ output[2] = Some(Issued(2))
  /\ tokenCache["graph"] = Some([accessToken |-> Issued(1), expiresAt |-> 3600000])
  /\ tokenCache["dataverse"] = None

\* C28: a 401 from either remote API clears the whole token cache, not only
\* the rejected credential: after a 401 from the mail API the cached token of
\* the tabular API is gone as well, and the other way round, also when the
\* rejected token was supplied by the caller and never came from the cache.
C28_WholeCacheCleared ==
  [][Answers401 => \A key \in CacheKeys : tokenCache'[key] = None]_vars

\* A request to the tabular API with the caller's token is in flight while
\* the cache holds a token for each API: a 401 is one of its answers.
C28_Witness ==
  /\ pc = "request"
  /\ call.tool = "extract_dataverse"
  /\ call.accessToken = "caller"
  /\ tokenCache["graph"] # None
  /\ tokenCache["dataverse"] # None

\* After the 401 to a caller's token the cache is empty.
C28_After ==
  /\ pc = "returned"
  /\ output = Remediation
  /\ call.accessToken = "caller"
  /\ call.now = 3300000
  /\ tokenCache = NoTokens

(***************************************************************************)
(* The tools that write to the store, called in any order.  A handler has  *)
(* no await between its first read and its last write of the store, so     *)
(* each call is one step.                                                  *)
(***************************************************************************)
\* How many entries the calls may add to one collection.
MaxAdds == 2

\* The customer ids a call names: one seeded with a checklist, the first one
\* an add creates (it has no checklist), and one no add reaches.
CustomerIds == {idOf(cust, 1), idOf(cust, 4), idOf(cust, 999)}

\* The item ids a call names: a seeded one and the first one an add creates.
ItemIds == {idOf(chk, 1), idOf(chk, 9)}

\* The checklist of a customer, empty when the store holds none
checklistOf(st, customerId) ==
  IF mapHas(st.checklists, customerId)
    THEN mapGet(st.checklists, customerId)[1] ELSE <<>>

InitStore ==
  /\ store = SeedStore
  /\ sessions = NoSessions
  /\ pc = "serving"
  /\ env = EnvNone
  /\ tokenCache = NoTokens
  /\ call = NoCall
  /\ result = NoResult
  /\ extracted = <<>>
  /\ nextLink = None
  /\ pageCount = 0
  /\ mappedFields = None
  /\ output = Content("", <<>>)

\* add_customer
AddCustomer ==
  /\ pc = "serving"
  /\ Len(store.customers) < Len(sampleCustomers) + MaxAdds
  /\ call' = [tool |-> "add_customer", customerId |-> None]
  /\ store' = add_customer(store, "Fabrikam").store
  /\ output' = add_customer(store, "Fabrikam").content
  /\ UNCHANGED <<sessions, pc, env, tokenCache, extracted, nextLink, pageCount,
                 result, mappedFields>>

\* update_customer_status
UpdateCustomerStatus ==
  /\ pc = "serving"
  /\ \E customerId \in CustomerIds :
       /\ call' = [tool |-> "update_customer_status", customerId |-> Some(customerId)]
       /\ store' = update_customer_status(store, customerId, "Completed").store
       /\ output' = update_customer_status(store, customerId, "Completed").content
  /\ UNCHANGED <<sessions, pc, env, tokenCache, extracted, nextLink, pageCount,
                 result, mappedFields>>

\* add_environment
AddEnvironment ==
  /\ pc = "serving"
  /\ Len(store.environments) < Len(sampleEnvironments) + MaxAdds
  /\ \E customerId \in CustomerIds :
       /\ call' = [tool |-> "add_environment", customerId |-> Some(customerId)]
       /\ store' = add_environment(store, customerId, "Test").store
       /\ output' = add_environment(store, customerId, "Test").content
  /\ UNCHANGED <<sessions, pc, env, tokenCache, extracted, nextLink, pageCount,
                 result, mappedFields>>

\* add_checklist_item
AddChecklistItem ==
  /\ pc = "serving"
  /\ \E customerId \in CustomerIds :
       /\ Len(checklistOf(store, customerId))
            < Len(checklistOf(SeedStore, customerId)) + MaxAdds
       /\ call' = [tool |-> "add_checklist_item", customerId |-> Some(customerId)]
       /\ store' = add_checklist_item(store, customerId, 0).store
       /\ output' = add_checklist_item(store, customerId, 0).content
  /\ UNCHANGED <<sessions, pc, env, tokenCache, extracted, nextLink, pageCount,
                 result, mappedFields>>

\* update_checklist_item
UpdateChecklistItem ==
  /\ pc = "serving"
  /\ \E customerId \in CustomerIds, itemId \in ItemIds :
       /\ call' = [tool |-> "update_checklist_item", customerId |-> Some(customerId)]
       /\ store' = update_checklist_item(store, customerId, itemId, "Blocked").store
       /\ output' = update_checklist_item(store, customerId, itemId, "Blocked").content
  /\ UNCHANGED <<sessions, pc, env, tokenCache, extracted, nextLink, pageCount,
                 result, mappedFields>>

NextStore ==
  \/ AddCustomer
  \/ UpdateCustomerStatus
  \/ AddEnvironment
  \/ AddChecklistItem
  \/ UpdateChecklistItem

SpecStore == InitStore /\ [][NextStore]_vars

(***************************************************************************)
(* Properties of the store                                                 *)
(***************************************************************************)
AddTools == {"add_customer", "add_environment", "add_checklist_item"}

\* The ids of the collection a call adds to, in the order of the collection:
\* the keys of the map of customers or of environments, or the ids of the
\* items of the checklist of the customer the call names.
CollectionIds(st, request) ==
  CASE request.tool = "add_customer" ->
         [i \in 1..Len(st.customers) |-> st.customers[i][1]] \o <<>>
    [] request.tool = "add_environment" ->
         [i \in 1..Len(st.environments) |-> st.environments[i][1]] \o <<>>
    [] request.tool = "add_checklist_item" ->
         LET checklist == checklistOf(st, request.customerId[1])
         IN  [i \in 1..Len(checklist) |-> checklist[i].id] \o <<>>

\* The entries of that collection
Collection(st, request) ==
  CASE request.tool = "add_customer" -> st.customers
    [] request.tool = "add_environment" -> st.environments
    [] request.tool = "add_checklist_item" -> checklistOf(st, request.customerId[1])

\* The call of this step names a customer the store does not hold.
UnknownCustomer ==
  /\ call'.tool \in {"add_environment", "add_checklist_item"}
  /\ ~mapHas(store.customers, call'.customerId[1])

\* The call of this step is an add that succeeds.
Adds == call'.tool \in AddTools /\ ~UnknownCustomer

\* The number the id is built from: the size of the collection plus one,
\* padded with zeros to three digits behind the prefix of the collection.
BuiltFromSize ==
  \E prefix \in {cust, envPrefix, chk} :
    output'.id =
      prefix \o padStart(NumText(Len(Collection(store, call')) + 1), 3, "0")

\* C29: under every interleaving of add_customer, add_environment,
\* add_checklist_item, update_customer_status and update_checklist_item, the
\* id a successful add generates is built from the size of its collection
\* plus one and is not among the ids of that collection, the add appends
\* exactly one entry, of that id, to the collection and leaves the earlier
\* entries as they were; add_environment and add_checklist_item for a
\* customer the store does not hold leave the store unchanged.
C29_FreshIds ==
  [][/\ UnknownCustomer => store' = store
     /\ Adds =>
          /\ BuiltFromSize
          /\ \A i \in 1..Len(CollectionIds(store, call')) :
               CollectionIds(store, call')[i] # output'.id
          /\ Len(Collection(store', call')) = Len(Collection(store, call')) + 1
          /\ CollectionIds(store', call')
               = Append(CollectionIds(store, call'), output'.id)
          /\ SubSeq(Collection(store', call'), 1, Len(Collection(store, call')))
               = Collection(store, call')]_vars

\* An environment was added for a customer that an earlier call added, after
\* another add of an environment and an update of a status.
C29_Witness ==
  /\ call.tool = "add_environment"
  /\ call.customerId = Some(idOf(cust, 4))
  /\ output.id = idOf(envPrefix, 5)
  /\ Len(store.environments) = 5
  /\ mapGet(store.customers, idOf(cust, 4))[1].status = "Completed"

\* The first item of a customer without a checklist was added.
C29_NewChecklist ==
  /\ call.tool = "add_checklist_item"
  /\ call.customerId = Some(idOf(cust, 4))
  /\ output.id = idOf(chk, 1)
  /\ Len(checklistOf(store, idOf(cust, 4))) = 1

\* A call for a customer the store does not hold was answered.
C29_Refused ==
  /\ call.tool = "add_environment"
  /\ output = Content("Customer not found", idOf(cust, 999))
  /\ Len(store.environments) = 4

(***************************************************************************)
(* The HTTP entry point: POST, GET and DELETE on /mcp over one session     *)
(* table.  What a transport does with a request it is handed belongs to    *)
(* the SDK: on an initialize request it may call onsessioninitialized with *)
(* a new session id or refuse the request, on a DELETE it may close, and   *)
(* it may close at any other time.                                         *)
(***************************************************************************)
\* How many session ids the generator hands out.
MaxSessions == 2

\* randomUUID()
Uuid(i) == <<"u", "u", "i", "d", "-">> \o NumText(i)
Uuids == {Uuid(i) : i \in 1..MaxSessions}

\* req.headers["mcp-session-id"]: absent, empty, a generated id (in the
\* table or not), or the name of a property of Object.prototype
SessionIdHeaders ==
  {None, Some(<<>>)} \cup {Some(id) : id \in Uuids \cup ObjectPrototype}

Requests ==
  {[method |-> "POST", sessionId |-> sessionId, body |-> body] :
     sessionId \in SessionIdHeaders, body \in {"initialize", "tools/call"}}
    \cup {[method |-> method, sessionId |-> sessionId, body |-> "none"] :
            method \in {"GET", "DELETE"}, sessionId \in SessionIdHeaders}

InitHttp ==
  /\ store = SeedStore
  /\ sessions = NoSessions
  /\ pc = "listening"
  /\ env = EnvNone
  /\ tokenCache = NoTokens
  /\ call = [method |-> "none", sessionId |-> None, body |-> "none"]
  /\ result = NoResult
  /\ extracted = <<>>
  /\ nextLink = None
  /\ pageCount = 0
  /\ mappedFields = None
  /\ output = Unanswered

\* app.post("/mcp", ...)
PostMcp ==
  /\ pc' = "post"
  /\ \E req \in Requests :
       /\ req.method = "POST"
       /\ call' = req
       /\ IF HasSessionId(req) /\ HasSession(sessions, req)
            THEN /\ sessions' = sessions
                 /\ output' =
                      IF property(sessions, req.sessionId[1]).k = "transport"
                        THEN Handled(req.sessionId)
                        ELSE Answered(500)
            ELSE IF ~HasSessionId(req) /\ req.body = "initialize"
              THEN \E sid \in {None} \cup {Some(id) : id \in Uuids \ sessions} :
                     /\ sessions' =
                          IF sid = None THEN sessions
                          ELSE onsessioninitialized(sessions, sid[1])
                     /\ output' = Handled(sid)
              ELSE /\ sessions' = sessions
                   /\ output' = Answered(400)
  /\ UNCHANGED <<store, env, tokenCache, extracted, nextLink, pageCount,
                 result, mappedFields>>

\* app.get("/mcp", ...): the call on a value that is no transport throws
\* outside any try, and the request gets the answer of the framework's
\* error handling or none
GetMcp ==
  /\ pc' = "get"
  /\ \E req \in Requests :
       /\ req.method = "GET"
       /\ call' = req
       /\ sessions' = sessions
       /\ IF ~HasSessionId(req) \/ ~HasSession(sessions, req)
            THEN output' = Answered(400)
            ELSE IF property(sessions, req.sessionId[1]).k = "transport"
              THEN output' = Handled(req.sessionId)
              ELSE output' \in {Answered(500), Unanswered}
  /\ UNCHANGED <<store, env, tokenCache, extracted, nextLink, pageCount,
                 result, mappedFields>>

\* app.delete("/mcp", ...)
DeleteMcp ==
  /\ pc' = "delete"
  /\ \E req \in Requests :
       /\ req.method = "DELETE"
       /\ call' = req
       /\ IF ~HasSessionId(req) \/ ~HasSession(sessions, req)
            THEN /\ sessions' = sessions
                 /\ output' = Answered(400)
            ELSE IF property(sessions, req.sessionId[1]).k = "transport"
              THEN /\ output' = Handled(req.sessionId)
                   /\ \E closes \in BOOLEAN :
                        sessions' = IF closes
                                      THEN onclose(sessions, req.sessionId[1])
                                      ELSE sessions
              ELSE /\ sessions' = sessions
                   /\ output' \in {Answered(500), Unanswered}
  /\ UNCHANGED <<store, env, tokenCache, extracted, nextLink, pageCount,
                 result, mappedFields>>

\* transport.onclose
TransportCloses ==
  /\ pc' = "onclose"
  /\ \E sid \in sessions : sessions' = onclose(sessions, sid)
  /\ UNCHANGED <<store, env, tokenCache, call, extracted, nextLink, pageCount,
                 result, mappedFields, output>>

NextHttp ==
  \/ PostMcp
  \/ GetMcp
  \/ DeleteMcp
  \/ TransportCloses

SpecHttp == InitHttp /\ [][NextHttp]_vars

(***************************************************************************)
(* Properties of the session table                                         *)
(***************************************************************************)
\* This step is the handling of a request.
Request == pc' \in {"post", "get", "delete"}

\* The request of this step carries an id that is in the session table.
KnownSession == HasSessionId(call') /\ call'.sessionId[1] \in sessions

\* The request of this step is a POST without a session id whose body is an
\* initialize request.
Initializes ==
  /\ call'.method = "POST"
  /\ ~HasSessionId(call')
  /\ call'.body = "initialize"

\* The request of this step is handed to a transport.
HandedOver == Request /\ output'.by = "transport"

\* The table changes only by the initialization of a session, which enters
\* the id of the new transport, and by the closing of a transport, at a
\* DELETE it was handed or on its own, which removes its id.
TableFollowsTransports ==
  /\ \A sid \in sessions' \ sessions :
       /\ HandedOver /\ Initializes
       /\ output'.session = Some(sid)
       /\ sessions' = sessions \cup {sid}
  /\ \A sid \in sessions \ sessions' :
       /\ sessions' = sessions \ {sid}
       /\ \/ pc' = "onclose"
          \/ pc' = "delete" /\ output' = Handled(Some(sid))

\* C30: a request is handed to a transport only if its mcp-session-id is in
\* the session table, or it is a POST without a session id whose body is an
\* initialize request; every other POST, GET or DELETE is answered with
\* status 400 and leaves the table unchanged; a session id is in the table
\* from its initialization until its transport closes.
C30_SessionTable ==
  [][/\ HandedOver => KnownSession \/ Initializes
     /\ (Request /\ ~KnownSession /\ ~Initializes) =>
          /\ output' = Answered(400)
          /\ sessions' = sessions
     /\ TableFollowsTransports]_vars

\* The request of this step carries the name of a property of
\* Object.prototype as its session id.
InheritedName ==
  HasSessionId(call') /\ call'.sessionId[1] \in ObjectPrototype

\* The same for requests whose session id is not the name of a property of
\* Object.prototype; a request with such a name is never handed to a
\* transport and leaves the table unchanged, and is not answered with 400.
C30_OwnSessionIds ==
  [][/\ HandedOver => KnownSession \/ Initializes
     /\ (Request /\ ~KnownSession /\ ~Initializes) =>
          /\ sessions' = sessions
          /\ (output' = Answered(400)) <=> ~InheritedName
     /\ (Request /\ KnownSession) =>
          HandedOver /\ output'.session = call'.sessionId
     /\ TableFollowsTransports]_vars

\* A request with the id of a closed session was answered with 400 while
\* another session was open.
C30_ClosedWitness ==
  /\ pc = "get"
  /\ call.sessionId = Some(Uuid(1))
  /\ output = Answered(400)
  /\ sessions = {Uuid(2)}

\* An initialize request carrying an unknown id was answered with 400.
C30_InitializeWitness ==
  /\ pc = "post"
  /\ call.body = "initialize"
  /\ call.sessionId = Some(Uuid(2))
  /\ output = Answered(400)
  /\ sessions = {Uuid(1)}

\* A POST whose session id is "constructor" was answered with 500.
C30_InheritedWitness ==
  /\ pc = "post"
  /\ call.sessionId = Some(<<"c", "o", "n", "s", "t", "r", "u", "c", "t", "o", "r">>)
  /\ output = Answered(500)

====
